---- MODULE Spec2Model ----
(***************************************************************************)
(* Trust fabric of the node runtime: the session supervisor (medic) of     *)
(* ockam_api/src/session.rs and the direct authenticator of                *)
(* ockam_api/src/authenticator/direct.rs with the signer it calls.         *)
(***************************************************************************)
EXTENDS Integers, Sequences, FiniteSets, TLC

(***************************************************************************)
(* Program constants                                                       *)
(***************************************************************************)
MAX_FAILURES == 3

(***************************************************************************)
(* Bounds of the model                                                     *)
(***************************************************************************)
MaxSessions == 2        \* sessions added to one registry
MaxCycles == 4          \* medic iterations explored
MaxNonce == 2           \* ping nonces are drawn from 1..MaxNonce
MaxRx == 1              \* messages waiting in the medic's mailbox
MaxRoute == 1           \* addresses in the route of an added secure channel
MaxTime == 1            \* the clock runs from 0 to MaxTime
MaxArgs == 2            \* operands of a call in an evaluated expression
IntBits == 4            \* width of an expression's integers, standing for 64

VARIABLES
    \* ---- session supervisor (session.rs) ----
    ctr,        \* SessionsImpl.ctr
    ses,        \* SessionsImpl.ses : Key -> Session
    nodes,      \* Dependencies: node weights, by node index
    edges,      \* Dependencies: edges <<from, to>> over node indices
    handle,     \* per node: the task held by Status::Starting(JoinHandle)
    pc,         \* position of Medic::go inside its loop
    zombies,    \* Medic::go local: keys found unresponsive in this iteration
    rx,         \* mpsc mailbox between Collector and Medic::go
    cycle,      \* number of iterations started
    invoked,    \* history: per node, how often the restarter was called
    age,        \* history: per key, iterations that visited the session
    misses,     \* history: per key, iterations since the last matching pong
    lost,       \* history: keys whose ping could not be dispatched in the pass
    \* ---- direct authenticator (authenticator/direct.rs) ----
    store,      \* the AuthenticatedStorage shared by both workers: <<id, key>> -> bytes
    now,        \* the wall clock read by Timestamp::now
    gw,         \* the member-facing worker: the request it is suspended in
    reply,      \* what the last handled request was answered with
    \* ---- oauth2 authenticator (authenticator/oauth2.rs) ----
    ow,         \* the oauth2 worker: the request it is suspended in
    \* ---- authority (authority.rs) ----
    au,         \* the authority worker: its configuration and whether it runs
    \* ---- attribute based access control (ockam_abac) ----
    policies,   \* Memory: resource -> action -> condition
    got,        \* what the last call of the policy store was and returned
    ev,         \* the last evaluation: expression, environment, result
    rt,         \* a value, the text it is printed as, and what that parses to
    \* ---- invitations (ockam_invitations) ----
    inv,        \* the envelope at hand, who signed it, the envelope it accepts
    \* ---- session registry of the node manager (session/deps.rs) ----
    reg,        \* Sessions (keys, graph) and the registry of secure channels
    kc          \* SessionsImpl.ctr and the keys of ses, with a narrow counter

medicVars == <<ctr, ses, nodes, edges, handle, pc, zombies, rx, cycle,
               invoked, age, misses, lost>>

authVars == <<store, now, gw, reply>>

abacVars == <<policies, got, ev, rt>>

\* the variables of the oauth2 authenticator, the authority and the policies
registryVars == <<reg, kc>>

otherVars == <<ow, au, abacVars, inv, registryVars>>

\* all but the policies' and the evaluator's
notAbacVars == <<medicVars, authVars, ow, au, inv, registryVars>>

\* all but the invitations'
notInvVars == <<medicVars, authVars, ow, au, abacVars, registryVars>>

\* all but the registry's
notRegistryVars == <<medicVars, authVars, ow, au, abacVars, inv>>

\* all but the medic's, and all but the direct authenticator's
notMedicVars == <<authVars, otherVars>>

notAuthVars == <<medicVars, otherVars>>

vars == <<medicVars, authVars, otherVars>>

(***************************************************************************)
(* Addresses.  A route mixes local worker addresses, the local "api"       *)
(* address and non-local (transport) addresses.                            *)
(***************************************************************************)
WorkerAddr(i) == [tt |-> "worker", name |-> i]
ApiAddr == [tt |-> "api", name |-> 0]
TcpAddr == [tt |-> "tcp", name |-> 0]

\* Worker 0 is a local worker that is never monitored; worker n + 1 is the
\* secure channel of the n-th added session (channel addresses are fresh).
RouteAddrs(n) == {WorkerAddr(i) : i \in 0..n} \cup {ApiAddr, TcpAddr}

is_local(a) == a.tt # "tcp"

SeqsUpTo(S, n) == UNION {[1..m -> S] : m \in 0..n}

Nonces == 1..MaxNonce

\* Key.fst is a random u32 that no code inspects; Key.snd tells keys apart
RndVals == {7}

\* what a JoinHandle can hold: no task, a running task, or its result
NoTask == [st |-> "none", addr |-> TcpAddr]
Running == [st |-> "running", addr |-> TcpAddr]
Failed == [st |-> "err", addr |-> TcpAddr]
\* the replaced channel of node n comes up under a fresh address
Replaced(n) == [st |-> "ok", addr |-> WorkerAddr(MaxSessions + n)]

(***************************************************************************)
(* Dependencies (session.rs 61-126)                                        *)
(***************************************************************************)
\* a variant that takes every status for Up
is_up_always(status) == TRUE

\* Status::is_up
is_up(status) == status = "Up"

find_node(ns, a) ==
    IF \E i \in 1..Len(ns) : ns[i].worker = a
    THEN CHOOSE i \in 1..Len(ns) :
            ns[i].worker = a /\ \A j \in 1..(i - 1) : ns[j].worker # a
    ELSE 0

\* the graph after add_node(a): an existing node is reused
add_node(ns, a) ==
    IF find_node(ns, a) # 0 THEN ns
    ELSE Append(ns, [worker |-> a, status |-> "Up", restarter |-> FALSE])

dependencies(es, r) == {e[2] : e \in {x \in es : x[1] = r}}

dependents(es, r) == {e[1] : e \in {x \in es : x[2] = r}}

(***************************************************************************)
(* Sessions::add (session.rs 171-191)                                      *)
(***************************************************************************)
RECURSIVE AddRoute(_, _, _, _)
\* the loop of lines 184-187 over the filtered route; yields <<nodes, edges>>
AddRoute(ns, es, p, route) ==
    IF route = <<>> THEN <<ns, es>>
    ELSE LET a == Head(route) IN
         IF is_local(a) /\ a # ApiAddr
         THEN LET ns2 == add_node(ns, a)
                  t == find_node(ns2, a)
              IN AddRoute(ns2, es \cup {<<p, t>>}, p, Tail(route))
         ELSE AddRoute(ns, es, p, Tail(route))

\* a variant of Key::new that does not use the counter
KeyStale(rnd, n) == <<rnd, 0>>

\* Key::new
KeyNew(rnd, n) == <<rnd, n>>

SessionsAdd(addr, route, rnd) ==
    /\ ctr < MaxSessions
    /\ LET key == KeyNew(rnd, ctr)
           ns1 == add_node(nodes, addr)
           p == find_node(ns1, addr)
           g == AddRoute(ns1, edges, p, route)
           grown == Len(g[1]) - Len(nodes)
       IN /\ ctr' = ctr + 1
          /\ nodes' = g[1]
          /\ edges' = g[2]
          /\ handle' = handle \o [i \in 1..grown |-> NoTask]
          /\ invoked' = invoked \o [i \in 1..grown |-> 0]
          /\ ses' = [k \in DOMAIN ses \cup {key} |->
                        IF k = key
                        THEN [addr |-> addr, ptr |-> p, pings |-> <<>>]
                        ELSE ses[k]]
          /\ age' = [k \in DOMAIN ses \cup {key} |->
                        IF k = key THEN 0 ELSE age[k]]
          /\ misses' = [k \in DOMAIN ses \cup {key} |->
                        IF k = key THEN 0 ELSE misses[k]]
    /\ UNCHANGED <<pc, zombies, rx, cycle>>
    /\ UNCHANGED lost
    /\ UNCHANGED notMedicVars

(***************************************************************************)
(* SessionMap::set_replacement (session/map.rs 83-94): stores the closure  *)
(* in the dependency node of session k.                                    *)
(***************************************************************************)
set_replacement(k) ==
    /\ k \in DOMAIN ses
    /\ ses[k].ptr \in 1..Len(nodes)
    /\ ~nodes[ses[k].ptr].restarter
    /\ nodes' = [nodes EXCEPT ![ses[k].ptr].restarter = TRUE]
    /\ UNCHANGED <<ctr, ses, edges, handle, pc, zombies, rx, cycle,
                   invoked, age, misses>>
    /\ UNCHANGED lost
    /\ UNCHANGED notMedicVars

(***************************************************************************)
(* Medic::go (session.rs 226-276)                                          *)
(***************************************************************************)
Message(k, p) == [key |-> k, ping |-> p]

\* variants of line 231: one ping too many, one ping too few
PingableOff == {k \in DOMAIN ses : Len(ses[k].pings) <= MAX_FAILURES}

PingableEarly == {k \in DOMAIN ses : Len(ses[k].pings) < MAX_FAILURES - 1}

\* keys whose session still has room for a ping (line 231)
Pingable == {k \in DOMAIN ses : Len(ses[k].pings) < MAX_FAILURES}

\* all orders in which the HashMap iteration can yield the keys of S
Orders(S) == {q \in [1..Cardinality(S) -> S] :
                 \A i, j \in 1..Cardinality(S) : i # j => q[i] # q[j]}

\* a variant of lines 241-243 that takes back the ping that was not sent
forward_failed_undone(pings) == SubSeq(pings, 1, Len(pings) - 1)

\* lines 241-243: ctx.forward returned Err; the pings of the session after
\* the warning is logged
forward_failed(pings) == pings

\* lines 230-247: one pass over all sessions under the registry lock.
\* `fl` are the keys whose ping the router did not accept.
\* `np` gives the nonce drawn for each pinged session (the ping is pushed
\* and dispatched; a failed dispatch is only logged), `zs` the order in
\* which the unresponsive keys were met.
MedicPass(np, zs, last, fl) ==
    /\ pc = "check"
    /\ cycle < last
    /\ cycle' = cycle + 1
    /\ ses' = [k \in DOMAIN ses |->
                 IF k \in Pingable
                 THEN [ses[k] EXCEPT !.pings =
                          IF k \in fl THEN forward_failed(Append(@, np[k]))
                          ELSE Append(@, np[k])]
                 ELSE ses[k]]
    /\ lost' = fl
    /\ zombies' = zs
    /\ age' = [k \in DOMAIN ses |-> age[k] + 1]
    /\ misses' = [k \in DOMAIN ses |-> misses[k] + 1]
    /\ pc' = "zombies"
    /\ UNCHANGED <<ctr, nodes, edges, handle, rx, invoked>>
    /\ UNCHANGED notMedicVars

\* the pass, in the first MaxCycles iterations
MedicCheck(np, zs) == MedicPass(np, zs, MaxCycles, {})

\* variant of line 251: dependencies are not looked at
WaitingNever(p) == FALSE

\* line 251: some dependency of node p is not up
WaitingForDependency(p) ==
    \E d \in dependencies(edges, p) : ~is_up(nodes[d].status)

\* variant of line 257: the restarter is never found
HasRestarterNever(p) == FALSE

\* line 257: the node holds a restarter closure
HasRestarter(p) == nodes[p].restarter

\* lines 248-265, one turn of the loop over the drained zombies
MedicZombie ==
    /\ pc = "zombies"
    /\ zombies # <<>>
    /\ LET z == Head(zombies) IN
       /\ zombies' = Tail(zombies)
       /\ IF z \in DOMAIN ses
          THEN LET p == ses[z].ptr IN
               IF WaitingForDependency(p)
               THEN UNCHANGED <<nodes, handle, invoked>>
               ELSE IF is_up(nodes[p].status)
               THEN IF HasRestarter(p)
                    THEN /\ nodes' = [nodes EXCEPT ![p].status = "Starting"]
                         /\ handle' = [handle EXCEPT ![p] = Running]
                         /\ invoked' = [invoked EXCEPT ![p] = @ + 1]
                    ELSE /\ nodes' = [nodes EXCEPT ![p].status = "Down"]
                         /\ UNCHANGED <<handle, invoked>>
               ELSE UNCHANGED <<nodes, handle, invoked>>
          ELSE UNCHANGED <<nodes, handle, invoked>>
    /\ UNCHANGED <<ctr, ses, edges, pc, rx, cycle, age, misses>>
    /\ UNCHANGED lost
    /\ UNCHANGED notMedicVars

\* line 266: time::sleep(self.delay)
MedicSleep ==
    /\ pc = "zombies"
    /\ zombies = <<>>
    /\ pc' = "drain"
    /\ UNCHANGED <<ctr, ses, nodes, edges, handle, zombies, rx, cycle,
                   invoked, age, misses>>
    /\ UNCHANGED lost
    /\ UNCHANGED notMedicVars

\* variant of line 269: the nonce is not compared
PongMatchesKey(m) == m.key \in DOMAIN ses

\* lines 268-269: the key names a session and the nonce is outstanding
PongMatches(m) ==
    /\ m.key \in DOMAIN ses
    /\ \E i \in 1..Len(ses[m.key].pings) : ses[m.key].pings[i] = m.ping

\* lines 267-274, one message taken with try_recv
MedicRecv ==
    /\ pc = "drain"
    /\ rx # <<>>
    /\ LET m == Head(rx) IN
       /\ rx' = Tail(rx)
       /\ IF PongMatches(m)
          THEN /\ ses' = [ses EXCEPT ![m.key].pings = <<>>]
               /\ misses' = [misses EXCEPT ![m.key] = 0]
          ELSE UNCHANGED <<ses, misses>>
    /\ UNCHANGED <<ctr, nodes, edges, handle, pc, zombies, cycle,
                   invoked, age>>
    /\ UNCHANGED lost
    /\ UNCHANGED notMedicVars

\* try_recv finds the mailbox empty: back to the top of the loop
MedicLoop ==
    /\ pc = "drain"
    /\ rx = <<>>
    /\ pc' = "check"
    /\ UNCHANGED <<ctr, ses, nodes, edges, handle, zombies, rx, cycle,
                   invoked, age, misses>>
    /\ UNCHANGED lost
    /\ UNCHANGED notMedicVars

(***************************************************************************)
(* The task spawned at line 258 runs to completion on the runtime.         *)
(***************************************************************************)
\* Its result is Ok(new address) or Err (an error or the closure's timeout).
RestartDone(n, res) ==
    /\ n \in 1..Len(nodes)
    /\ handle[n] = Running
    /\ handle' = [handle EXCEPT ![n] = res]
    /\ UNCHANGED <<ctr, ses, nodes, edges, pc, zombies, rx, cycle,
                   invoked, age, misses>>
    /\ UNCHANGED lost
    /\ UNCHANGED notMedicVars

(***************************************************************************)
(* Collector (session.rs 329-340) and the path of a ping                   *)
(***************************************************************************)
\* Every Message that reaches the collector's address goes into the
\* mailbox: the echo of a ping by the Responder (session.rs 358-369), which
\* may arrive late, or a Message sent by any other worker (it may name a
\* key that is not registered, or a nonce that is not outstanding).
Keys == {KeyNew(r, n) : r \in RndVals, n \in 0..(MaxSessions - 1)}
Messages == {Message(k, p) : k \in Keys, p \in Nonces}

CollectorHandle(m) ==
    /\ Len(rx) < MaxRx
    /\ rx' = Append(rx, m)
    /\ UNCHANGED <<ctr, ses, nodes, edges, handle, pc, zombies, cycle,
                   invoked, age, misses>>
    /\ UNCHANGED lost
    /\ UNCHANGED notMedicVars

\* ======================================================================
\* Direct authenticator and signer (authenticator/direct.rs, signer.rs)
\* ======================================================================

\* storage scopes
ENROLLER == "enroller"
DIRECT == "direct"

\* Identities that own a secure channel to the member-facing worker, the
\* identity of the signer, and the strings requests may carry.
Identities == {"E", "F"}
SignerId == "A"
\* the admin worker's callers are local and carry no identity
Admin == "admin"
MemberNames == {"M", ENROLLER}
EnrollerNames == Identities \cup {DIRECT}

\* ---- CBOR items as minicbor writes them. A byte string is modelled by the
\* ---- item it is the encoding of (the encoding is injective).
UInt(n) == [t |-> "uint", n |-> n]
Str(s) == [t |-> "str", s |-> s]
Bytes(b) == [t |-> "bytes", b |-> b]
Array(xs) == [t |-> "array", xs |-> xs]
Map(kv) == [t |-> "map", kv |-> kv]
NoBody == [t |-> "none"]

IsMapWith(b, k, ty) == b.t = "map" /\ k \in DOMAIN b.kv /\ b.kv[k].t = ty

\* #[cbor(transparent)] Timestamp(u64)
Timestamp(n) == UInt(n)

\* Timestamp::now(): the wall clock in seconds, Some(..) unless the clock
\* is before the epoch
TimestampNow == now

\* #[cbor(map)] Enroller { #[b(1)] enroller }
EncEnroller(e) == Map(1 :> Str(e))
DecEnroller(b) == IsMapWith(b, 1, "str")
enroller(b) == b.kv[1].s

\* #[cbor(map)] EnrollerInfo { #[b(1)] registered_at }
EnrollerInfoNew(t) == Map(1 :> Timestamp(t))
DecEnrollerInfo(b) == IsMapWith(b, 1, "uint")
registered_at(b) == b.kv[1].n

\* #[cbor(map)] CredentialRequest { #[b(1)] member }
EncCredentialRequest(m) == Map(1 :> Str(m))
DecCredentialRequest(b) == IsMapWith(b, 1, "str")
crq_member(b) == b.kv[1].s

\* variant of MemberCredential::new: issued_at left at the epoch
MemberCredentialEpoch(t, m) == [t |-> "map", kv |-> (0 :> [t |-> "uint", n |-> 0]) @@ (1 :> [t |-> "str", s |-> m])]

\* #[cbor(map)] MemberCredential { #[n(0)] issued_at, #[b(1)] member }
MemberCredentialNew(t, m) == Map((0 :> Timestamp(t)) @@ (1 :> Str(m)))
DecMemberCredential(b) == IsMapWith(b, 0, "uint") /\ IsMapWith(b, 1, "str")
issued_at(b) == b.kv[0].n
member(b) == b.kv[1].s

\* Signature { #[b(0)] ident, #[b(1)] signature } (array encoding)
SignatureNew(id, sig) == Array(<<Str(id), Bytes(sig)>>)
DecSignature(b) ==
    /\ b.t = "array"
    /\ Len(b.xs) = 2
    /\ b.xs[1].t = "str"
    /\ b.xs[2].t = "bytes"

\* Signed { #[b(0)] dat, #[b(1)] sig } (array encoding)
SignedNew(dat, sig) == Array(<<Bytes(dat), sig>>)
DecSigned(b) ==
    /\ b.t = "array"
    /\ Len(b.xs) = 2
    /\ b.xs[1].t = "bytes"
    /\ DecSignature(b.xs[2])
signed_data(b) == b.xs[1].b
signed_signature(b) == b.xs[2]

\* Identity::create_signature: the vault's signature of `dat` under the
\* key of identity `id`, kept symbolic
create_signature(id, dat) == [signer |-> id, over |-> dat]

\* ---- requests and responses ----
Request(m, p, b) == [method |-> m, path |-> p, body |-> b, framed |-> TRUE]
\* bytes that do not decode to a request header
Garbage == [method |-> "NONE", path |-> <<>>, body |-> NoBody, framed |-> FALSE]

Response(st, b) == [status |-> st, body |-> b]
\* handle_message returned Err: nothing is sent to the return route
Failure == Response("Err", NoBody)

\* Error body { path, method?, message? }: "NONE" and "" where absent
ErrorBody(p, m, msg) ==
    [t |-> "error", path |-> p, method |-> m, message |-> msg]

\* response::unknown_path
unknown_path(req) ==
    Response("BadRequest", ErrorBody(req.path, req.method, "unknown path"))
\* response::invalid_method
invalid_method(req) ==
    IF req.method = "NONE"
    THEN Response("NotImplemented",
                  ErrorBody(req.path, "NONE", "unknown method"))
    ELSE Response("MethodNotAllowed", ErrorBody(req.path, req.method, ""))
\* response::forbidden
forbidden(req) ==
    Response("Forbidden",
             ErrorBody(req.path, req.method, "unauthorized enroller"))

\* ---- the attribute store (AuthenticatedStorage) ----
store_has(id, key) == <<id, key>> \in DOMAIN store
store_get(id, key) == store[<<id, key>>]
store_set(id, key, val) ==
    [x \in DOMAIN store \cup {<<id, key>>} |->
        IF x = <<id, key>> THEN val ELSE store[x]]
store_del(id, key) == [x \in DOMAIN store \ {<<id, key>>} |-> store[x]]

\* ---- the member-facing worker, Server<General> ----
Idle == [pc |-> "idle", from |-> "", req |-> Garbage, dat |-> NoBody,
         sig |-> NoBody, regAt |-> 0]

\* the operation a request asks for: its path when a worker serves that
\* path under that method, "register" with the enroller it names
operation(req) ==
    IF ~req.framed THEN <<>>
    ELSE IF req.method = "POST" /\ req.path = <<"enroll">> THEN req.path
    ELSE IF req.method = "POST" /\ req.path = <<"register">>
    THEN IF DecEnroller(req.body) THEN <<"register", enroller(req.body)>>
                                  ELSE req.path
    ELSE IF req.method = "GET" /\ Len(req.path) = 2
            /\ req.path[1] \in {"member", "enroller"} THEN req.path
    ELSE IF req.method = "DELETE" /\ Len(req.path) = 2
            /\ req.path[1] = "deregister" THEN req.path
    ELSE <<>>

\* what the last request was answered with, next to who sent it and the
\* operation it asked for
Answer(from, req, res) ==
    reply' = [from |-> from, re |-> operation(req),
              status |-> res.status, body |-> res.body]

\* variant of line 84: any record of the registry is taken for the peer's
enroller_record_any(from) ==
    IF \E e \in Identities : <<ENROLLER, e>> \in DOMAIN store
    THEN [some |-> TRUE,
          data |-> store[<<ENROLLER,
                           CHOOSE e \in Identities :
                               <<ENROLLER, e>> \in DOMAIN store>>]]
    ELSE [some |-> FALSE, data |-> [t |-> "none"]]

\* self.store.get(ENROLLER, from.key_id()): the peer's record in the
\* enroller registry, if there is one
enroller_record(from) ==
    IF store_has(ENROLLER, from)
    THEN [some |-> TRUE, data |-> store_get(ENROLLER, from)]
    ELSE [some |-> FALSE, data |-> NoBody]

\* GET /member/{id}
get_member(id) ==
    IF store_has(id, DIRECT)
    THEN IF DecSigned(store_get(id, DIRECT))
         THEN Response("Ok", store_get(id, DIRECT))
         ELSE Failure
    ELSE Response("NotFound", NoBody)

\* Server<General>::handle_message and on_request, up to the call of the
\* signer. gw.regAt only records what the check read, for the properties.
on_request(from, req) ==
    /\ gw.pc = "idle"
    /\ IF ~req.framed
       THEN Answer(from, req, Failure) /\ UNCHANGED gw
       ELSE IF req.method = "POST"
       THEN IF req.path = <<"enroll">>
            THEN IF ~DecCredentialRequest(req.body)
                 THEN Answer(from, req, Failure) /\ UNCHANGED gw
                 ELSE IF enroller_record(from).some
                 THEN IF ~DecEnrollerInfo(enroller_record(from).data)
                      THEN Answer(from, req, Failure) /\ UNCHANGED gw
                      ELSE /\ gw' = [pc |-> "sign",
                                     from |-> from,
                                     req |-> req,
                                     dat |-> MemberCredentialNew(TimestampNow,
                                                 crq_member(req.body)),
                                     sig |-> NoBody,
                                     regAt |-> registered_at(
                                                 enroller_record(from).data)]
                           /\ UNCHANGED reply
                 ELSE Answer(from, req, forbidden(req)) /\ UNCHANGED gw
            ELSE Answer(from, req, unknown_path(req)) /\ UNCHANGED gw
       ELSE IF req.method = "GET"
       THEN IF Len(req.path) = 2 /\ req.path[1] = "member"
            THEN Answer(from, req, get_member(req.path[2])) /\ UNCHANGED gw
            ELSE Answer(from, req, unknown_path(req)) /\ UNCHANGED gw
       ELSE Answer(from, req, invalid_method(req)) /\ UNCHANGED gw
    /\ UNCHANGED <<store, now>>
    /\ UNCHANGED notAuthVars

\* variant of lines 57-59: the signature covers the path and the body
signer_on_request_whole(req) ==
    IF ~req.framed
    THEN Failure
    ELSE IF req.method = "POST"
    THEN IF req.path = <<"sign">>
         THEN Response("Ok",
                  SignedNew(req.body,
                      SignatureNew(SignerId,
                          create_signature(SignerId,
                              Array(<<Str("sign"), req.body>>)))))
         ELSE Response("BadRequest",
                       ErrorBody(req.path, "POST", "unknown path"))
    ELSE IF req.method # "NONE"
    THEN Response("MethodNotAllowed", ErrorBody(req.path, req.method, ""))
    ELSE Response("NotImplemented",
                  ErrorBody(req.path, "NONE", "unknown method"))

\* signer Server::on_request
signer_on_request(req) ==
    IF ~req.framed
    THEN Failure
    ELSE IF req.method = "POST"
    THEN IF req.path = <<"sign">>
         THEN Response("Ok",
                  SignedNew(req.body,
                      SignatureNew(SignerId,
                          create_signature(SignerId, req.body))))
         ELSE Response("BadRequest",
                       ErrorBody(req.path, "POST", "unknown path"))
    ELSE IF req.method # "NONE"
    THEN Response("MethodNotAllowed", ErrorBody(req.path, req.method, ""))
    ELSE Response("NotImplemented",
                  ErrorBody(req.path, "NONE", "unknown method"))

\* signer Client::sign: the result, Failure standing for Err
client_sign(data) ==
    LET res == signer_on_request(Request("POST", <<"sign">>, data))
    IN  IF res.status = "Ok" /\ DecSigned(res.body) THEN res ELSE Failure

\* on_request resumes with the signer's answer
enroll_signed ==
    /\ gw.pc = "sign"
    /\ LET res == client_sign(gw.dat)
       IN  IF res.status = "Ok"
           THEN gw' = [gw EXCEPT !.pc = "store", !.sig = res.body]
                /\ UNCHANGED reply
           ELSE gw' = Idle /\ Answer(gw.from, gw.req, Failure)
    /\ UNCHANGED <<store, now>>
    /\ UNCHANGED notAuthVars

\* on_request stores the signed credential and replies
enroll_stored ==
    /\ gw.pc = "store"
    /\ store' = store_set(crq_member(gw.req.body), DIRECT, gw.sig)
    /\ Answer(gw.from, gw.req, Response("Ok", gw.sig))
    /\ gw' = Idle
    /\ UNCHANGED now
    /\ UNCHANGED notAuthVars

\* ---- failures of what on_request relies on ----
\* line 86: Timestamp::now() is None; `?` ends on_request and handle_message
\* with Err
enroll_clock_failed(from, req) ==
    /\ gw.pc = "idle"
    /\ req.framed
    /\ req.method = "POST"
    /\ req.path = <<"enroll">>
    /\ DecCredentialRequest(req.body)
    /\ enroller_record(from).some
    /\ DecEnrollerInfo(enroller_record(from).data)
    /\ Answer(from, req, Failure)
    /\ UNCHANGED <<store, now, gw>>
    /\ UNCHANGED notAuthVars

\* line 89: the call of the signer returns Err
enroll_sign_failed ==
    /\ gw.pc = "sign"
    /\ gw' = Idle
    /\ Answer(gw.from, gw.req, Failure)
    /\ UNCHANGED <<store, now>>
    /\ UNCHANGED notAuthVars

\* line 91: the write of the signed credential returns Err
enroll_store_failed ==
    /\ gw.pc = "store"
    /\ gw' = Idle
    /\ Answer(gw.from, gw.req, Failure)
    /\ UNCHANGED <<store, now>>
    /\ UNCHANGED notAuthVars

\* ---- the admin worker, Server<Admin> ----
register(e) == store_set(ENROLLER, e, EnrollerInfoNew(TimestampNow))

\* variant of line 169: the record is deleted from the wrong scope
deregister_direct(e) == store_del(DIRECT, e)

deregister(e) == store_del(ENROLLER, e)

\* GET /enroller/{id}
get_enroller(id) ==
    IF store_has(ENROLLER, id)
    THEN IF DecEnrollerInfo(store_get(ENROLLER, id))
         THEN Response("Ok", store_get(ENROLLER, id))
         ELSE Failure
    ELSE Response("NotFound", NoBody)

\* Server<Admin>::handle_message and on_admin_request
on_admin_request(req) ==
    /\ IF ~req.framed
       THEN Answer(Admin, req, Failure) /\ UNCHANGED store
       ELSE IF req.method = "POST"
       THEN IF req.path = <<"register">>
            THEN IF ~DecEnroller(req.body)
                 THEN Answer(Admin, req, Failure) /\ UNCHANGED store
                 ELSE /\ store' = register(enroller(req.body))
                      /\ Answer(Admin, req, Response("Ok", NoBody))
            ELSE Answer(Admin, req, unknown_path(req)) /\ UNCHANGED store
       ELSE IF req.method = "GET"
       THEN IF Len(req.path) = 2 /\ req.path[1] = "enroller"
            THEN Answer(Admin, req, get_enroller(req.path[2]))
                 /\ UNCHANGED store
            ELSE Answer(Admin, req, unknown_path(req)) /\ UNCHANGED store
       ELSE IF req.method = "DELETE"
       THEN IF Len(req.path) = 2 /\ req.path[1] = "deregister"
            THEN /\ store' = deregister(req.path[2])
                 /\ Answer(Admin, req, Response("Ok", NoBody))
            ELSE Answer(Admin, req, unknown_path(req)) /\ UNCHANGED store
       ELSE Answer(Admin, req, invalid_method(req)) /\ UNCHANGED store
    /\ UNCHANGED <<now, gw>>
    /\ UNCHANGED notAuthVars

\* the wall clock advances
Tick ==
    /\ now < MaxTime
    /\ now' = now + 1
    /\ UNCHANGED <<store, gw, reply>>
    /\ UNCHANGED notAuthVars

\* ---- what the workers can be sent ----
Methods == {"POST", "GET", "DELETE", "PUT", "NONE"}

\* a request with a body is a POST; the other methods come without one
Requests(paths, bodies) ==
    {Garbage}
        \cup {Request("POST", p, b) : p \in paths, b \in bodies \cup {NoBody}}
        \cup {Request(m, p, NoBody) : m \in Methods \ {"POST"}, p \in paths}

GeneralPaths ==
    {<<"enroll">>, <<"register">>} \cup {<<"member", m>> : m \in MemberNames}

GeneralRequests ==
    Requests(GeneralPaths, {EncCredentialRequest(m) : m \in MemberNames})

AdminPaths ==
    {<<"register">>, <<"enroll">>}
        \cup {<<"enroller", e>> : e \in EnrollerNames}
        \cup {<<"deregister", e>> : e \in EnrollerNames}

AdminRequests ==
    Requests(AdminPaths, {EncEnroller(e) : e \in Identities})

\* ======================================================================
\* OAuth2 authenticator (authenticator/oauth2.rs)
\* ======================================================================

\* storage scope
OAUTH2 == "oauth2"

\* access tokens a caller may present; one of them reads like an identity
Tokens == {"t1", "F"}

Bool(b) == [t |-> "bool", v |-> b]

\* #[cbor(map)] CredentialRequest { #[b(1)] tkn }
EncTokenRequest(tk) == Map(1 :> Str(tk))
DecTokenRequest(b) == IsMapWith(b, 1, "str")
access_token(b) == b.kv[1].s

\* #[cbor(map)] MemberCredential { #[n(0)] issued_at, #[b(1)] member,
\* #[b(2)] email, #[b(3)] email_verified }; a None field is left out
OauthCredentialNew(t, m) == Map((0 :> Timestamp(t)) @@ (1 :> Str(m)))
with_email(mc, e, v) == Map(mc.kv @@ (2 :> Str(e)) @@ (3 :> Bool(v)))
has_email(b) == IsMapWith(b, 2, "str")
email(b) == b.kv[2].s

\* the JSON document of a user profile: its "email" and "email_verified"
\* members, "none" where the document has no such member of that type
Profile(e, v) == [email |-> e, verified |-> v]
Profiles == {Profile("a@x", "true"), Profile("E", "none"),
             Profile("none", "true")}

\* what the HTTP GET of the profile URL can come back with: no response
\* (status 0), or a status and a body that is a JSON document, is not one,
\* or cannot be read
Http(st, body, j) == [status |-> st, body |-> body, json |-> j]
HttpOutcomes ==
    {Http(0, "none", Profile("none", "none")),
     Http(401, "json", Profile("a@x", "true")),
     Http(403, "json", Profile("a@x", "true")),
     Http(500, "garbage", Profile("none", "none")),
     Http(200, "garbage", Profile("none", "none")),
     Http(200, "unread", Profile("none", "none"))}
        \cup {Http(200, "json", j) : j \in Profiles}

\* variant of lines 139-158: every answer but a 401 is read as a profile
fetch_user_profile_lenient(h) ==
    IF h.status = 0
    THEN [ok |-> FALSE, kind |-> "Io", json |-> h.json]
    ELSE IF h.status = 401
    THEN [ok |-> FALSE, kind |-> "Invalid", json |-> h.json]
    ELSE IF h.body = "json"
    THEN [ok |-> TRUE, kind |-> "", json |-> h.json]
    ELSE [ok |-> FALSE, kind |-> "Io", json |-> h.json]

\* Server::fetch_user_profile: Ok(json) or Err of an error kind
fetch_user_profile(h) ==
    IF h.status = 0
    THEN [ok |-> FALSE, kind |-> "Io", json |-> h.json]
    ELSE IF h.status = 200
    THEN IF h.body = "json"
         THEN [ok |-> TRUE, kind |-> "", json |-> h.json]
         ELSE [ok |-> FALSE, kind |-> "Io", json |-> h.json]
    ELSE IF h.status = 401
    THEN [ok |-> FALSE, kind |-> "Invalid", json |-> h.json]
    ELSE [ok |-> FALSE, kind |-> "Io", json |-> h.json]

\* variant of line 76: a profile with an email names the member
oauth_credential_email(t, from, j) ==
    IF j.email # "none"
    THEN with_email(OauthCredentialNew(t, j.email), j.email,
                    j.verified = "true")
    ELSE OauthCredentialNew(t, from)

\* lines 75-85: the credential of the caller `from`, with the profile's
\* email when it has one
oauth_credential(t, from, j) ==
    IF j.email # "none"
    THEN with_email(OauthCredentialNew(t, from), j.email, j.verified = "true")
    ELSE OauthCredentialNew(t, from)

OIdle == [pc |-> "idle", from |-> "", req |-> Garbage, dat |-> NoBody,
          sig |-> NoBody]

\* the operation an oauth2 request asks for
o_operation(req) ==
    IF ~req.framed THEN <<OAUTH2>>
    ELSE IF req.method = "POST" /\ req.path = <<"register">>
    THEN <<OAUTH2>> \o req.path
    ELSE IF req.method = "GET" /\ Len(req.path) = 2 /\ req.path[1] = "member"
    THEN <<OAUTH2>> \o req.path
    ELSE <<OAUTH2>>

OAnswer(from, req, res) ==
    reply' = [from |-> from, re |-> o_operation(req),
              status |-> res.status, body |-> res.body]

\* GET /member/{id}
o_get_member(id) ==
    IF store_has(id, OAUTH2)
    THEN IF DecSigned(store_get(id, OAUTH2))
         THEN Response("Ok", store_get(id, OAUTH2))
         ELSE Failure
    ELSE Response("NotFound", NoBody)

\* Server::handle_message and on_request, up to the HTTP request
o_request(from, req) ==
    /\ ow.pc = "idle"
    /\ IF ~req.framed
       THEN OAnswer(from, req, Failure) /\ UNCHANGED ow
       ELSE IF req.method = "POST"
       THEN IF req.path = <<"register">>
            THEN IF ~DecTokenRequest(req.body)
                 THEN OAnswer(from, req, Failure) /\ UNCHANGED ow
                 ELSE /\ ow' = [OIdle EXCEPT !.pc = "fetch", !.from = from,
                                             !.req = req]
                      /\ UNCHANGED reply
            ELSE OAnswer(from, req, unknown_path(req)) /\ UNCHANGED ow
       ELSE IF req.method = "GET"
       THEN IF Len(req.path) = 2 /\ req.path[1] = "member"
            THEN OAnswer(from, req, o_get_member(req.path[2]))
                 /\ UNCHANGED ow
            ELSE OAnswer(from, req, unknown_path(req)) /\ UNCHANGED ow
       ELSE OAnswer(from, req, invalid_method(req)) /\ UNCHANGED ow
    /\ UNCHANGED <<store, now, gw, au>>
    /\ UNCHANGED <<medicVars, abacVars, inv, registryVars>>

\* on_request resumes with the outcome of the HTTP request
o_fetched(h) ==
    /\ ow.pc = "fetch"
    /\ LET r == fetch_user_profile(h)
       IN  IF r.ok
           THEN /\ ow' = [ow EXCEPT !.pc = "sign",
                              !.dat = oauth_credential(TimestampNow,
                                                       ow.from, r.json)]
                /\ UNCHANGED reply
           ELSE /\ ow' = OIdle
                /\ IF r.kind = "Invalid"
                   THEN OAnswer(ow.from, ow.req,
                                Response("Unauthorized", NoBody))
                   ELSE OAnswer(ow.from, ow.req,
                                Response("InternalServerError", NoBody))
    /\ UNCHANGED <<store, now, gw, au>>
    /\ UNCHANGED <<medicVars, abacVars, inv, registryVars>>

\* on_request resumes with the signer's answer
o_signed ==
    /\ ow.pc = "sign"
    /\ LET res == client_sign(ow.dat)
       IN  IF res.status = "Ok"
           THEN ow' = [ow EXCEPT !.pc = "store", !.sig = res.body]
                /\ UNCHANGED reply
           ELSE ow' = OIdle /\ OAnswer(ow.from, ow.req, Failure)
    /\ UNCHANGED <<store, now, gw, au>>
    /\ UNCHANGED <<medicVars, abacVars, inv, registryVars>>

\* a variant of line 112 that stores under the direct authenticator's key
o_stored_direct ==
    /\ ow.pc = "store"
    /\ store' = store_set(ow.from, DIRECT, ow.sig)
    /\ OAnswer(ow.from, ow.req, Response("Ok", ow.sig))
    /\ ow' = OIdle
    /\ UNCHANGED <<now, gw, au>>
    /\ UNCHANGED <<medicVars, abacVars, inv, registryVars>>

\* on_request stores the signed credential and replies
o_stored ==
    /\ ow.pc = "store"
    /\ store' = store_set(ow.from, OAUTH2, ow.sig)
    /\ OAnswer(ow.from, ow.req, Response("Ok", ow.sig))
    /\ ow' = OIdle
    /\ UNCHANGED <<now, gw, au>>
    /\ UNCHANGED <<medicVars, abacVars, inv, registryVars>>

OauthPaths == {<<"register">>, <<"enroll">>}
                 \cup {<<"member", m>> : m \in Identities}

OauthRequests == Requests(OauthPaths, {EncTokenRequest(tk) : tk \in Tokens})

\* ======================================================================
\* Authority (authority.rs)
\* ======================================================================

\* the identities the authority's store knows
KnownIdentities == {"E"}

\* Config: auth0 is Some or None; `up` is whether the worker runs
AuthorityConfigs == {[up |-> TRUE, auth0 |-> b] : b \in BOOLEAN}

\* before the authority worker is started
NotStarted == [up |-> FALSE, auth0 |-> FALSE]

\* the identity of the authority
AuthorityId == "Z"

\* handle_message returned Err of an error kind: nothing is sent
Err(kind, msg) ==
    Response("Err", [t |-> "err", kind |-> kind, message |-> msg])

\* the handler ran into todo!(): the worker panics, nothing is sent
Panic == Response("Panic", NoBody)

\* #[cbor(map)] Signature { #[b(1)] key_id, #[b(2)] signature }
ASignatureNew(id, sig) == Map((1 :> Str(id)) @@ (2 :> Bytes(sig)))
DecASignature(b) == IsMapWith(b, 1, "str") /\ IsMapWith(b, 2, "bytes")
key_id(b) == b.kv[1].s
signature(b) == b.kv[2].b

\* #[cbor(map)] Signed { #[b(1)] dat, #[b(2)] sig }
ASignedNew(dat, sig) == Map((1 :> Bytes(dat)) @@ (2 :> sig))
DecASigned(b) == IsMapWith(b, 1, "bytes") /\ IsMapWith(b, 2, "map")
                    /\ DecASignature(b.kv[2])

\* #[cbor(map)] enum CredentialRequest: variants n(1) Oauth2,
\* n(2) CreateSpace, n(3) CreateProject, each { data, signature }
Oauth2Flow == 1
CreateSpaceFlow == 2
CreateProjectFlow == 3
Flows == {Oauth2Flow, CreateSpaceFlow, CreateProjectFlow}
EncSignRequest(v, dat, sig) ==
    [t |-> "enum", variant |-> v, kv |-> (1 :> Bytes(dat)) @@ (2 :> sig)]
DecSignRequest(b) ==
    /\ b.t = "enum"
    /\ b.variant \in Flows
    /\ b.kv[1].t = "bytes"
    /\ DecASignature(b.kv[2])
sr_data(b) == b.kv[1].b
sr_signature(b) == b.kv[2]

\* #[cbor(map)] Oauth2 { #[b(1)] access_token }
EncOauth2(tk) == Map(1 :> Str(tk))
DecOauth2(b) == IsMapWith(b, 1, "str")

\* the root public key of a known identity
PublicKey(id) == [t |-> "pubkey", of |-> id]

\* Membership::new(time, key_id, key).with_attributes(attrs)
MembershipNew(t, id, key, attrs) ==
    Map((1 :> Timestamp(t)) @@ (2 :> Str(id)) @@ (3 :> key)
            @@ (4 :> Str(attrs)))

\* Identity::verify_signature against the known identities: "true",
\* "false", or "unknown" when the identity is not known
verify_signature(sig, id, dat) ==
    IF id \notin KnownIdentities THEN "unknown"
    ELSE IF sig = create_signature(id, dat) THEN "true"
    ELSE "false"

\* Server::verify: Ok(()) or Err
verify(dat, sig) ==
    LET v == verify_signature(signature(sig), key_id(sig), dat)
    IN  IF v = "unknown" THEN Err("Invalid", "unknown identity")
        ELSE IF v = "true" THEN Response("Ok", NoBody)
        ELSE Err("Invalid", "invalid signature")

\* Server::resolve_key: Ok(key) or Err
resolve_key(id) ==
    IF id \in KnownIdentities
    THEN Response("Ok", PublicKey(id))
    ELSE Err("Invalid", "unknown identity")

\* variant of line 93: the signature is made over the request's data
sign_oauth2_request(dat, sig) ==
    IF verify(dat, sig).status # "Ok" THEN verify(dat, sig)
    ELSE IF resolve_key(key_id(sig)).status # "Ok"
    THEN resolve_key(key_id(sig))
    ELSE IF ~DecOauth2(dat) THEN Failure
    ELSE LET cred == MembershipNew(TimestampNow, key_id(sig),
                         resolve_key(key_id(sig)).body,
                         "TODO: get user profile from auth0")
         IN  Response("Ok",
                 ASignedNew(cred,
                     ASignatureNew(AuthorityId,
                         create_signature(AuthorityId, dat))))

\* the Oauth2 flow with auth0 configured, lines 83-96
sign_oauth2(dat, sig) ==
    IF verify(dat, sig).status # "Ok" THEN verify(dat, sig)
    ELSE IF resolve_key(key_id(sig)).status # "Ok"
    THEN resolve_key(key_id(sig))
    ELSE IF ~DecOauth2(dat) THEN Failure
    ELSE LET cred == MembershipNew(TimestampNow, key_id(sig),
                         resolve_key(key_id(sig)).body,
                         "TODO: get user profile from auth0")
         IN  Response("Ok",
                 ASignedNew(cred,
                     ASignatureNew(AuthorityId,
                         create_signature(AuthorityId, cred))))

\* authority Server::on_request under the configuration `cfg`
authority_on_request(cfg, req) ==
    IF ~req.framed THEN Failure
    ELSE IF req.method = "POST"
    THEN IF req.path = <<"sign">>
         THEN IF ~DecSignRequest(req.body) THEN Failure
              ELSE IF req.body.variant = Oauth2Flow
              THEN IF cfg.auth0
                   THEN sign_oauth2(sr_data(req.body),
                                    sr_signature(req.body))
                   ELSE Response("NotImplemented",
                            ErrorBody(req.path, "POST",
                                      "oauth2 is not configured"))
              ELSE IF verify(sr_data(req.body),
                             sr_signature(req.body)).status # "Ok"
              THEN verify(sr_data(req.body), sr_signature(req.body))
              ELSE Panic
         ELSE Response("BadRequest",
                       ErrorBody(req.path, "POST", "unknown path"))
    ELSE Panic

\* Server::new
authority_new(cfg) ==
    /\ ~au.up
    /\ au' = cfg
    /\ UNCHANGED <<store, now, gw, reply, ow>>
    /\ UNCHANGED <<medicVars, abacVars, inv, registryVars>>

\* the operation an authority request asks for
a_operation(req) ==
    IF req.framed /\ req.method = "POST" /\ req.path = <<"sign">>
    THEN IF DecSignRequest(req.body)
         THEN <<"authority", "sign", req.body.variant>>
         ELSE <<"authority", "sign">>
    ELSE <<"authority">>

\* authority Server::handle_message
a_request(they, req) ==
    /\ au.up
    /\ LET res == authority_on_request(au, req)
       IN  /\ reply' = [from |-> they, re |-> a_operation(req),
                        status |-> res.status, body |-> res.body]
           /\ au' = [au EXCEPT !.up = (res # Panic)]
    /\ UNCHANGED <<store, now, gw, ow>>
    /\ UNCHANGED <<medicVars, abacVars, inv, registryVars>>

\* data a request can carry, and what can stand for its signature: the
\* signature of the named identity over the data, or over something else
SignData == {EncOauth2("t1"), Str("x")}
SignRequests ==
    {EncSignRequest(v, d, ASignatureNew(id, create_signature(id, o))) :
        v \in Flows, d \in SignData, id \in Identities, o \in SignData}

AuthorityRequests ==
    Requests({<<"sign">>, <<"member", "E">>}, SignRequests)

\* ---- the signer worker (signer.rs) ----
\* a client of the signer on the same node
Local == "local"

s_operation(req) ==
    IF req.framed /\ req.method = "POST" /\ req.path = <<"sign">>
    THEN <<"signer", "sign">>
    ELSE <<"signer">>

\* signer Server::handle_message
signer_request(req) ==
    /\ LET res == signer_on_request(req)
       IN  reply' = [from |-> Local, re |-> s_operation(req),
                     status |-> res.status, body |-> res.body]
    /\ UNCHANGED <<store, now, gw, ow, au>>
    /\ UNCHANGED <<medicVars, abacVars, inv, registryVars>>

\* bodies the signer is sent: credentials, and anything else
SignerBodies ==
    {MemberCredentialNew(t, m) : t \in 0 .. MaxTime, m \in MemberNames}
        \cup {OauthCredentialNew(0, f) : f \in Identities}
        \cup {Str("x"), Bytes(Str("x"))}


\* ======================================================================
\* Attribute based access control (ockam_abac: mem.rs, policy.rs)
\* ======================================================================

\* ---- expressions (policy.rs Expr) ----
ExprUnit == [k |-> "Unit"]
ExprStr(s) == [k |-> "Str", str |-> s]
ExprInt(i) == [k |-> "Int", int |-> i]
ExprBool(b) == [k |-> "Bool", bool |-> b]
ExprVar(name) == [k |-> "Var", name |-> name]
ExprList(es) == [k |-> "List", xs |-> es]
ExprVec(es) == [k |-> "Vec", xs |-> es]

\* the integers of an expression are IntBits wide (two's complement)
MaxInt == 2 ^ (IntBits - 1) - 1
MinInt == 0 - 2 ^ (IntBits - 1)

\* Result<Expr, Error>: an error is its kind and, for Unbound and
\* UnknownFn, the name it carries
EvalOk(v) == [ok |-> TRUE, val |-> v, err |-> <<>>]
EvalErr(kind, name) == [ok |-> FALSE, val |-> ExprUnit, err |-> <<kind, name>>]
InvalidType == EvalErr("InvalidType", "")
Overflow == EvalErr("Overflow", "")

\* Env::get
EnvGet(env, name) ==
    IF name \in DOMAIN env THEN EvalOk(env[name])
                           ELSE EvalErr("Unbound", name)

\* i64::checked_add, checked_mul, checked_sub, checked_div: None when the
\* result does not fit or the divisor is 0; division truncates
Abs(i) == IF i < 0 THEN 0 - i ELSE i
Checked(i) ==
    IF MinInt <= i /\ i <= MaxInt THEN [some |-> TRUE, int |-> i]
                                  ELSE [some |-> FALSE, int |-> 0]
checked(op, i, j) ==
    IF op = "+" THEN Checked(i + j)
    ELSE IF op = "*" THEN Checked(i * j)
    ELSE IF op = "-" THEN Checked(i - j)
    ELSE IF j = 0 THEN [some |-> FALSE, int |-> 0]
    ELSE IF (i < 0) = (j < 0) THEN Checked(Abs(i) \div Abs(j))
    ELSE Checked(0 - (Abs(i) \div Abs(j)))

RECURSIVE eval(_, _)
RECURSIVE and_from(_, _, _)
RECURSIVE or_from(_, _, _)
RECURSIVE arith_from(_, _, _, _, _)
RECURSIVE eq_from(_, _, _, _)

\* eval_and: the loop over expr from index n
and_from(expr, n, env) ==
    IF n > Len(expr) THEN EvalOk(ExprBool(TRUE))
    ELSE LET r == eval(expr[n], env)
         IN  IF ~r.ok THEN r
             ELSE IF r.val.k # "Bool" THEN InvalidType
             ELSE IF r.val.bool THEN and_from(expr, n + 1, env)
             ELSE EvalOk(ExprBool(FALSE))

\* variant of eval_and: every operand is evaluated before any is looked at
and_eager(expr, env) ==
    IF \E n \in 1 .. Len(expr) : ~eval(expr[n], env).ok
    THEN eval(expr[CHOOSE n \in 1 .. Len(expr) :
                    /\ ~eval(expr[n], env).ok
                    /\ \A m \in 1 .. n - 1 : eval(expr[m], env).ok], env)
    ELSE and_from(expr, 1, env)

eval_and(expr, env) == and_from(expr, 1, env)

\* eval_or: the loop over expr from index n
or_from(expr, n, env) ==
    IF n > Len(expr) THEN EvalOk(ExprBool(FALSE))
    ELSE LET r == eval(expr[n], env)
         IN  IF ~r.ok THEN r
             ELSE IF r.val.k # "Bool" THEN InvalidType
             ELSE IF r.val.bool THEN EvalOk(ExprBool(TRUE))
             ELSE or_from(expr, n + 1, env)

eval_or(expr, env) == or_from(expr, 1, env)

eval_if(expr, env) ==
    IF Len(expr) # 3 THEN InvalidType
    ELSE LET r == eval(expr[1], env)
         IN  IF ~r.ok THEN r
             ELSE IF r.val.k # "Bool" THEN InvalidType
             ELSE IF r.val.bool THEN eval(expr[2], env)
             ELSE eval(expr[3], env)

\* eval_not: `expr` is what follows the operator
eval_not(expr, env) ==
    IF Len(expr) # 2 THEN InvalidType
    ELSE LET r == eval(expr[2], env)
         IN  IF ~r.ok THEN r
             ELSE IF r.val.k # "Bool" THEN InvalidType
             ELSE EvalOk(ExprBool(~r.val.bool))

\* eval_arith: the loop over expr from index n with accumulator i
arith_from(expr, n, env, op, i) ==
    IF n > Len(expr) THEN EvalOk(ExprInt(i))
    ELSE LET r == eval(expr[n], env)
         IN  IF ~r.ok THEN r
             ELSE IF r.val.k # "Int" THEN InvalidType
             ELSE IF ~checked(op, i, r.val.int).some THEN Overflow
             ELSE arith_from(expr, n + 1, env, op,
                             checked(op, i, r.val.int).int)

\* eval_arith with z the value of no operands (none for - and /)
eval_arith(expr, env, z, op) ==
    IF expr = <<>>
    THEN IF z.some THEN EvalOk(ExprInt(z.int)) ELSE InvalidType
    ELSE LET r == eval(expr[1], env)
         IN  IF ~r.ok THEN r
             ELSE IF r.val.k # "Int" THEN InvalidType
             ELSE arith_from(expr, 2, env, op, r.val.int)

\* eval_eq: the loop over expr from index n, x the first operand's value
eq_from(expr, n, env, x) ==
    IF n > Len(expr) THEN EvalOk(ExprBool(TRUE))
    ELSE LET r == eval(expr[n], env)
         IN  IF ~r.ok THEN r
             ELSE IF x # r.val THEN EvalOk(ExprBool(FALSE))
             ELSE eq_from(expr, n + 1, env, x)

eval_eq(expr, env) ==
    IF expr = <<>> THEN EvalOk(ExprBool(TRUE))
    ELSE LET r == eval(expr[1], env)
         IN  IF ~r.ok THEN r ELSE eq_from(expr, 2, env, r.val)

eval_ne(expr, env) ==
    LET r == eval_eq(expr, env)
    IN  IF ~r.ok THEN r
        ELSE IF r.val.k = "Bool" THEN EvalOk(ExprBool(~r.val.bool))
        ELSE InvalidType

eval_in(expr, env) ==
    IF Len(expr) # 2 THEN InvalidType
    ELSE LET a == eval(expr[1], env)
         IN  IF ~a.ok THEN a
             ELSE LET v == eval(expr[2], env)
                  IN  IF ~v.ok THEN v
                      ELSE IF v.val.k # "Vec" THEN InvalidType
                      ELSE EvalOk(ExprBool(
                               \E n \in 1 .. Len(v.val.xs) : v.val.xs[n] = a.val))

\* Expr::eval
eval(e, env) ==
    IF e.k = "Var" THEN EnvGet(env, e.name)
    ELSE IF e.k = "List"
    THEN IF e.xs = <<>> THEN EvalOk(ExprUnit)
         ELSE IF e.xs[1].k = "Var"
         THEN LET name == e.xs[1].name
                  args == Tail(e.xs)
              IN  IF name = "and" THEN eval_and(args, env)
                  ELSE IF name = "or" THEN eval_or(args, env)
                  ELSE IF name = "not" THEN eval_not(args, env)
                  ELSE IF name = "if" THEN eval_if(args, env)
                  ELSE IF name = "+"
                  THEN eval_arith(args, env, [some |-> TRUE, int |-> 0], "+")
                  ELSE IF name = "*"
                  THEN eval_arith(args, env, [some |-> TRUE, int |-> 1], "*")
                  ELSE IF name = "-"
                  THEN eval_arith(args, env, [some |-> FALSE, int |-> 0], "-")
                  ELSE IF name = "/"
                  THEN eval_arith(args, env, [some |-> FALSE, int |-> 0], "/")
                  ELSE IF name \in {"in", "member"} THEN eval_in(args, env)
                  ELSE IF name \in {"=", "eq?"} THEN eval_eq(args, env)
                  ELSE IF name \in {"!=", "ne?"} THEN eval_ne(args, env)
                  ELSE EvalErr("UnknownFn", name)
         ELSE InvalidType
    ELSE EvalOk(e)

\* an expression waiting to be evaluated in an environment
Pending(e, env) ==
    [expr |-> e, env |-> env, res |-> EvalOk(ExprUnit), done |-> FALSE]

\* the expression is evaluated
Eval ==
    /\ ~ev.done
    /\ ev' = [ev EXCEPT !.res = eval(ev.expr, ev.env), !.done = TRUE]
    /\ UNCHANGED <<policies, got, rt>>
    /\ UNCHANGED notAbacVars

\* ---- the expressions and environments evaluated ----
\* operands: scalars, a bound variable x, an unbound variable y, vectors,
\* and calls that fail
Operands ==
    {ExprInt(1), ExprInt(MaxInt), ExprInt(0), ExprInt(0 - 1), ExprInt(MinInt),
     ExprBool(TRUE), ExprBool(FALSE),
     ExprStr("a"), ExprVar("x"), ExprVar("y"),
     ExprVec(<<ExprInt(1), ExprVar("x")>>),
     ExprList(<<>>),
     ExprList(<<ExprVar("foo")>>),
     ExprList(<<ExprVar("+"), ExprBool(TRUE)>>)}

Heads == {"and", "or", "not", "if", "+", "*", "-", "/", "in", "member",
          "=", "eq?", "!=", "ne?", "foo"}

Exprs ==
    Operands
        \cup {ExprList(<<ExprVar(h)>> \o args) :
                h \in Heads, args \in SeqsUpTo(Operands, MaxArgs)}
        \cup {ExprList(<<ExprVar("and"), ExprBool(TRUE)>> \o args) :
                args \in SeqsUpTo(Operands, MaxArgs)}
        \cup {ExprList(<<ExprVar("or"), ExprBool(FALSE)>> \o args) :
                args \in SeqsUpTo(Operands, MaxArgs)}
        \cup {ExprList(<<ExprVar("="), ExprInt(1), ExprInt(0), a>>) :
                a \in Operands}
        \cup {ExprList(<<ExprVar("if"), c, ExprInt(1), ExprVar("y")>>) :
                c \in Operands}
        \cup {ExprList(<<ExprInt(1), ExprInt(1)>>)}

Envs == {("x" :> ExprBool(TRUE)), ("x" :> ExprInt(1)),
         ("x" :> ExprBool(FALSE)) @@ ("z" :> ExprStr("a"))}

\* ---- printing and parsing (Display for Expr, TryFrom<&str>) ----
\* the elements the s-expression parser reads from a text
ElemString(s) == [el |-> "String", str |-> s]
ElemIntegral(i) == [el |-> "Integral", int |-> i]
ElemIdent(name) == [el |-> "Ident", name |-> name]
ElemGroup(kind, list) == [el |-> "Group", kind |-> kind, list |-> list]

RECURSIVE to_string(_)
\* Display for Expr, as the element its text reads as: a quoted string,
\* digits, a bare word, or the elements between parentheses or brackets
to_string(e) ==
    IF e.k = "Str" THEN ElemString(e.str)
    ELSE IF e.k = "Int" THEN ElemIntegral(e.int)
    ELSE IF e.k = "Bool"
    THEN IF e.bool THEN ElemIdent("true") ELSE ElemIdent("false")
    ELSE IF e.k = "Var" THEN ElemIdent(e.name)
    ELSE IF e.k = "List"
    THEN ElemGroup("Paren", [n \in 1 .. Len(e.xs) |-> to_string(e.xs[n])])
    ELSE IF e.k = "Vec"
    THEN ElemGroup("Bracket", [n \in 1 .. Len(e.xs) |-> to_string(e.xs[n])])
    ELSE ElemGroup("Paren", <<>>)

RECURSIVE from_element(_)
\* Expr::from_element
from_element(value) ==
    IF value.el = "String" THEN EvalOk(ExprStr(value.str))
    ELSE IF value.el = "Integral" THEN EvalOk(ExprInt(value.int))
    ELSE IF value.el = "Ident"
    THEN IF value.name = "true" THEN EvalOk(ExprBool(TRUE))
         ELSE IF value.name = "false" THEN EvalOk(ExprBool(FALSE))
         ELSE EvalOk(ExprVar(value.name))
    ELSE IF value.kind = "Brace" THEN EvalErr("NotSupported", "braces")
    ELSE IF \E n \in 1 .. Len(value.list) : ~from_element(value.list[n]).ok
    THEN from_element(value.list[CHOOSE n \in 1 .. Len(value.list) :
             /\ ~from_element(value.list[n]).ok
             /\ \A m \in 1 .. n - 1 : from_element(value.list[m]).ok])
    ELSE IF value.kind = "Paren"
    THEN EvalOk(ExprList([n \in 1 .. Len(value.list) |->
                             from_element(value.list[n]).val]))
    ELSE EvalOk(ExprVec([n \in 1 .. Len(value.list) |->
                            from_element(value.list[n]).val]))

\* TryFrom<&str> for Expr, parse: the first element of the text
parse(text) == from_element(text)

\* a value waiting to be printed and parsed
Unparsed(v) ==
    [expr |-> v, text |-> ElemGroup("Paren", <<>>),
     back |-> EvalOk(ExprUnit), done |-> FALSE]

\* the value is printed and the text is parsed
PrintParse ==
    /\ ~rt.done
    /\ rt' = [rt EXCEPT !.text = to_string(rt.expr),
                        !.back = parse(to_string(rt.expr)),
                        !.done = TRUE]
    /\ UNCHANGED <<policies, got, ev>>
    /\ UNCHANGED notAbacVars

\* values without a variable
Scalars == {ExprStr("a"), ExprInt(1), ExprInt(0), ExprBool(TRUE),
            ExprBool(FALSE), ExprUnit}
Values ==
    Scalars
        \cup {ExprList(xs) : xs \in SeqsUpTo(Scalars, MaxArgs)}
        \cup {ExprVec(xs) : xs \in SeqsUpTo(Scalars, MaxArgs)}
        \cup {ExprList(<<ExprVec(<<x>>), ExprList(<<x>>)>>) : x \in Scalars}

\* ---- the in-memory policy store (mem.rs Inner) ----
Resources == {"r1", "r2"}
Actions == {"a1", "a2"}
Conds == {ExprBool(TRUE),
          ExprList(<<ExprVar("="), ExprVar("x"), ExprInt(1)>>)}

\* variant of set_policy: the resource's map is started afresh
inner_set_policy_afresh(r, a, p) ==
    [x \in DOMAIN policies \cup {r} |->
        IF x = r THEN (a :> p) ELSE policies[x]]

\* Inner::del_policy
inner_del_policy(r) == [x \in DOMAIN policies \ {r} |-> policies[x]]

\* Inner::get_policy: Option<Cond>
inner_get_policy(r, a) ==
    IF r \in DOMAIN policies /\ a \in DOMAIN policies[r]
    THEN [some |-> TRUE, cond |-> policies[r][a]]
    ELSE [some |-> FALSE, cond |-> ExprUnit]

\* Inner::set_policy
inner_set_policy(r, a, p) ==
    [x \in DOMAIN policies \cup {r} |->
        IF x = r
        THEN IF r \in DOMAIN policies
             THEN [y \in DOMAIN policies[r] \cup {a} |->
                      IF y = a THEN p ELSE policies[r][y]]
             ELSE (a :> p)
        ELSE policies[x]]

\* PolicyStorage for Memory: each call holds the lock for its whole body
del_policy(r) ==
    /\ policies' = inner_del_policy(r)
    /\ got' = [op |-> "del", r |-> r, a |-> "", res |-> inner_get_policy(r, "")]
    /\ UNCHANGED <<ev, rt>>
    /\ UNCHANGED notAbacVars

get_policy(r, a) ==
    /\ got' = [op |-> "get", r |-> r, a |-> a, res |-> inner_get_policy(r, a)]
    /\ UNCHANGED <<policies, ev, rt>>
    /\ UNCHANGED notAbacVars

set_policy(r, a, p) ==
    /\ policies' = inner_set_policy(r, a, p)
    /\ got' = [op |-> "set", r |-> r, a |-> a,
               res |-> [some |-> TRUE, cond |-> p]]
    /\ UNCHANGED <<ev, rt>>
    /\ UNCHANGED notAbacVars

(***************************************************************************)
(* Session registry of the node manager (session/deps.rs) and the secure   *)
(* channels that are monitored (nodes/service/secure_channel.rs)           *)
(***************************************************************************)
CtrBits == 2        \* width of the key counter

\* the largest value of SessionsImpl.ctr (u32::MAX in the code)
CtrMax == 2 ^ CtrBits - 1

\* deps.rs Key::new: a random number and the index of the node
GraphKey(rnd, idx) == [rnd |-> rnd, idx |-> idx]

\* Graph::add_dependency: the edges afterwards (only the indices are looked
\* at; an edge may join a node to itself)
graph_add_dependency(r, from, to) ==
    IF from.idx < Len(r.nodes) /\ to.idx < Len(r.nodes)
    THEN r.edges \cup {<<from.idx, to.idx>>}
    ELSE r.edges

\* deps.rs Sessions::add of Session::new(addr): the registry afterwards
sessions_add(r, addr, rnd) ==
    [r EXCEPT !.keys = @ \cup {GraphKey(rnd, Len(r.nodes))},
              !.nodes = Append(@, [address |-> addr, status |-> "Up",
                                   key |-> GraphKey(rnd, Len(r.nodes))]),
              !.res = [op |-> "add", ok |-> TRUE,
                       key |-> GraphKey(rnd, Len(r.nodes))]]

\* secure_channel.rs 102-109: the key of the session at the first local
\* address of the route, if there is one
find_dependency(r, route) ==
    LET loc == {i \in 1 .. Len(route) : is_local(route[i])}
    IN IF loc = {} THEN {}
       ELSE LET x == route[CHOOSE i \in loc : \A j \in loc : i <= j]
            IN IF \E n \in 1 .. Len(r.nodes) : r.nodes[n].address = x
               THEN {r.nodes[CHOOSE n \in 1 .. Len(r.nodes) :
                         /\ r.nodes[n].address = x
                         /\ \A m \in 1 .. n - 1 : r.nodes[m].address # x].key}
               ELSE {}

NoKey == GraphKey(0, 0)

\* create_secure_channel_impl from the point where the channel exists
create_secure_channel_impl(route, monitor, rnd) ==
    /\ reg.made < MaxSessions
    /\ LET sc_addr == WorkerAddr(reg.made + 1)
           r1 == [reg EXCEPT !.made = @ + 1,
                             !.chans = @ \cup {sc_addr},
                             !.res = [op |-> "create", ok |-> TRUE,
                                      key |-> NoKey]]
           d == find_dependency(reg, route)
           r2 == sessions_add(r1, sc_addr, rnd)
       IN reg' = IF ~monitor THEN r1
                 ELSE IF d = {} THEN r2
                 ELSE [r2 EXCEPT !.edges = graph_add_dependency(
                                     r2, r2.res.key, CHOOSE k \in d : TRUE)]
    /\ UNCHANGED kc
    /\ UNCHANGED notRegistryVars

\* delete_secure_channel: stopped says whether stop_secure_channel succeeds
delete_secure_channel(sc_address, stopped) ==
    /\ stopped => sc_address \in reg.chans
    /\ reg' = [reg EXCEPT !.chans = IF stopped THEN @ \ {sc_address} ELSE @,
                          !.res = [op |-> "delete", ok |-> stopped,
                                   key |-> NoKey]]
    /\ UNCHANGED kc
    /\ UNCHANGED notRegistryVars

\* Graph::add_dependency called on two keys of the registry
add_dependency(from, to) ==
    /\ <<from.idx, to.idx>> \notin reg.edges
    /\ reg' = [reg EXCEPT !.edges = graph_add_dependency(reg, from, to),
                          !.res = [op |-> "depend", ok |-> TRUE,
                                   key |-> NoKey]]
    /\ UNCHANGED kc
    /\ UNCHANGED notRegistryVars

\* session.rs Sessions::add (171-191) on a counter of CtrBits bits: the
\* counter, the keys of ses with the address each session monitors, and what
\* the call returned
keyed_add(addr, rnd) ==
    /\ kc' = IF kc.ctr = CtrMax
             THEN [kc EXCEPT !.res = [ok |-> FALSE, key |-> KeyNew(0, 0),
                                      addr |-> addr]]
             ELSE [ctr |-> kc.ctr + 1,
                   ses |-> [k \in DOMAIN kc.ses \cup {KeyNew(rnd, kc.ctr)} |->
                               IF k = KeyNew(rnd, kc.ctr) THEN addr
                               ELSE kc.ses[k]],
                   res |-> [ok |-> TRUE, key |-> KeyNew(rnd, kc.ctr),
                            addr |-> addr]]
    /\ UNCHANGED reg
    /\ UNCHANGED notRegistryVars

RegistryNext ==
    \/ \E route \in SeqsUpTo(RouteAddrs(reg.made), MaxRoute),
          monitor \in BOOLEAN, rnd \in RndVals :
          create_secure_channel_impl(route, monitor, rnd)
    \/ \E a \in {WorkerAddr(i) : i \in 1 .. MaxSessions}, stopped \in BOOLEAN :
          delete_secure_channel(a, stopped)
    \/ \E from \in reg.keys, to \in reg.keys : add_dependency(from, to)
    \/ \E a \in {WorkerAddr(1), WorkerAddr(2)}, rnd \in RndVals :
          keyed_add(a, rnd)

(***************************************************************************)
(* Invitations (ockam_invitations/src/lib.rs)                              *)
(***************************************************************************)
MaxSigs == 2        \* signatures on one envelope

\* ed25519 keys, and an ssh key of an algorithm Signer::sign does not support
SecKeys == {"a", "b", "u"}

SignError == [ok |-> FALSE, signer |-> "", over |-> <<>>]

\* Signer::sign
signer_sign(k, data) ==
    IF k = "u" THEN SignError ELSE [ok |-> TRUE, signer |-> k, over |-> data]

\* Verifier::is_valid, under the public key of k
is_valid(k, data, sig) == sig.ok /\ sig.signer = k /\ sig.over = data

HeaderInvite == UInt(1)
HeaderAccept == UInt(2)

\* #[derive(Encode)] for Envelope
EncEnvelope(e) ==
    Map((1 :> Bytes(e.data))
         @@ (2 :> Array([i \in 1 .. Len(e.sign) |-> Bytes(e.sign[i])])))

\* #[derive(Decode)] for Envelope
DecEnvelope(item) ==
    [data |-> item.kv[1].b,
     sign |-> [i \in 1 .. Len(item.kv[2].xs) |-> item.kv[2].xs[i].b]]

\* Envelope::invite
envelope_invite(d) == [data |-> <<HeaderInvite, Str(d)>>, sign |-> <<>>]

\* Envelope::accept of Acceptance::new(p, e)
envelope_accept(p, e) ==
    [data |-> <<HeaderAccept, Map((1 :> Bytes(p)) @@ (2 :> EncEnvelope(e)))>>,
     sign |-> <<>>]

\* Acceptance::envelope of the acceptance that Envelope::read_data leaves
acceptance_envelope(e) == DecEnvelope(e.data[2].kv[2])

\* a variant that keeps the last signature only
envelope_sign_last(e, k) ==
    IF signer_sign(k, e.data).ok
    THEN [e EXCEPT !.sign = <<signer_sign(k, e.data)>>]
    ELSE e

\* Envelope::sign, the envelope afterwards
envelope_sign(e, k) ==
    IF signer_sign(k, e.data).ok
    THEN [e EXCEPT !.sign = Append(@, signer_sign(k, e.data))]
    ELSE e

Drafted(e) ==
    [e |-> e, by |-> <<>>, inner |-> <<>>, wired |-> FALSE, res |-> "Ok"]

\* a new invitation is put into an envelope
e_invite(d) ==
    /\ inv' = Drafted(envelope_invite(d))
    /\ UNCHANGED notInvVars

\* Envelope::sign with the key k
e_sign(k) ==
    /\ Len(inv.e.sign) < MaxSigs
    /\ inv' = IF signer_sign(k, inv.e.data).ok
              THEN [inv EXCEPT !.e = envelope_sign(inv.e, k),
                               !.by = Append(@, k),
                               !.wired = FALSE,
                               !.res = "Ok"]
              ELSE [inv EXCEPT !.res = "Err"]
    /\ UNCHANGED notInvVars

\* minicbor::to_vec, then minicbor::decode at the other party
e_transfer ==
    /\ ~inv.wired
    /\ inv' = [inv EXCEPT !.e = DecEnvelope(EncEnvelope(inv.e)),
                          !.wired = TRUE]
    /\ UNCHANGED notInvVars

\* the recipient p accepts the invitation: the envelope goes into a new one
e_accept(p) ==
    /\ inv.inner = <<>>
    /\ inv' = [e |-> envelope_accept(p, inv.e), by |-> <<>>,
               inner |-> <<inv.by>>, wired |-> FALSE, res |-> "Ok"]
    /\ UNCHANGED notInvVars

InvitationNext ==
    \/ \E d \in {"hello", "bye"} : e_invite(d)
    \/ \E k \in SecKeys : e_sign(k)
    \/ e_transfer
    \/ \E p \in {"a", "b"} : e_accept(p)

InitWorkers ==
    /\ reg = [keys |-> {}, nodes |-> <<>>, edges |-> {}, chans |-> {},
              made |-> 0, res |-> [op |-> "new", ok |-> TRUE, key |-> NoKey]]
    /\ kc = [ctr |-> 0, ses |-> <<>>,
             res |-> [ok |-> TRUE, key |-> KeyNew(0, 0), addr |-> TcpAddr]]
    /\ inv = Drafted(envelope_invite("hello"))
    /\ ctr = 0
    /\ ses = <<>>
    /\ nodes = <<>>
    /\ edges = {}
    /\ handle = <<>>
    /\ pc = "check"
    /\ zombies = <<>>
    /\ rx = <<>>
    /\ cycle = 0
    /\ invoked = <<>>
    /\ age = <<>>
    /\ misses = <<>>
    /\ lost = {}
    /\ store = <<>>
    /\ now = 0
    /\ gw = Idle
    /\ reply = [from |-> "", re |-> <<>>, status |-> "none", body |-> NoBody]
    /\ ow = OIdle
    /\ au = NotStarted
    /\ policies = <<>>
    /\ got = [op |-> "new", r |-> "", a |-> "",
              res |-> [some |-> FALSE, cond |-> ExprUnit]]

Init ==
    /\ InitWorkers
    /\ ev = Pending(ExprUnit, ("x" :> ExprBool(TRUE)))
    /\ rt = Unparsed(ExprBool(TRUE))

\* any of the expressions is to be evaluated in any of the environments
InitEval ==
    /\ InitWorkers
    /\ ev \in {Pending(e, env) : e \in Exprs, env \in Envs}
    /\ rt = Unparsed(ExprBool(TRUE))

\* any of the values is to be printed and parsed
InitParse ==
    /\ InitWorkers
    /\ ev = Pending(ExprUnit, ("x" :> ExprBool(TRUE)))
    /\ rt \in {Unparsed(v) : v \in Values}

MedicNext ==
    \/ \E r \in SeqsUpTo(RouteAddrs(ctr), MaxRoute), n \in RndVals :
          SessionsAdd(WorkerAddr(ctr + 1), r, n)
    \/ \E k \in DOMAIN ses : set_replacement(k)
    \/ \E np \in [Pingable -> Nonces], zs \in Orders(DOMAIN ses \ Pingable) :
          MedicCheck(np, zs)
    \/ MedicZombie
    \/ MedicSleep
    \/ MedicRecv
    \/ MedicLoop
    \/ \E n \in 1..Len(nodes) : \E res \in {Replaced(n), Failed} :
          RestartDone(n, res)
    \/ \E m \in Messages : CollectorHandle(m)

\* one turn of the loop of Medic::go
MedicStep ==
    \/ \E np \in [Pingable -> Nonces], zs \in Orders(DOMAIN ses \ Pingable) :
          MedicCheck(np, zs)
    \/ MedicZombie
    \/ MedicSleep
    \/ MedicLoop

\* one turn of the loop, for two iterations more than MedicStep takes
MedicStepLong ==
    \/ \E np \in [Pingable -> Nonces], zs \in Orders(DOMAIN ses \ Pingable) :
          MedicPass(np, zs, MaxCycles + 2, {})
    \/ MedicZombie
    \/ MedicSleep
    \/ MedicLoop

\* one turn of the loop while the dispatch of a ping can fail
MedicStepFault ==
    \/ \E np \in [Pingable -> Nonces], zs \in Orders(DOMAIN ses \ Pingable),
          fl \in SUBSET Pingable :
          MedicPass(np, zs, MaxCycles, fl)
    \/ MedicZombie
    \/ MedicSleep
    \/ MedicLoop

\* a spawned replacement task comes to its end
TaskStep ==
    \E n \in 1..Len(nodes) : \E res \in {Replaced(n), Failed} :
        RestartDone(n, res)

\* the supervisor while no monitored session answers a ping
SilentNext ==
    \/ \E r \in SeqsUpTo(RouteAddrs(ctr), MaxRoute), n \in RndVals :
          SessionsAdd(WorkerAddr(ctr + 1), r, n)
    \/ \E k \in DOMAIN ses : set_replacement(k)
    \/ MedicStep
    \/ TaskStep

\* the supervisor without pongs, followed beyond the first replacement
SilentLongNext ==
    \/ \E r \in SeqsUpTo(RouteAddrs(ctr), MaxRoute), n \in RndVals :
          SessionsAdd(WorkerAddr(ctr + 1), r, n)
    \/ \E k \in DOMAIN ses : set_replacement(k)
    \/ MedicStepLong
    \/ TaskStep

\* the supervisor without pongs, on a router that can refuse a ping
SilentFaultNext ==
    \/ \E r \in SeqsUpTo(RouteAddrs(ctr), MaxRoute), n \in RndVals :
          SessionsAdd(WorkerAddr(ctr + 1), r, n)
    \/ \E k \in DOMAIN ses : set_replacement(k)
    \/ MedicStepFault
    \/ TaskStep

AuthNext ==
    \/ \E from \in Identities, req \in GeneralRequests : on_request(from, req)
    \/ enroll_signed
    \/ enroll_stored
    \/ \E req \in AdminRequests : on_admin_request(req)
    \/ Tick

\* the authenticator while the clock, the signer and the store can fail
AuthFaultNext ==
    \/ AuthNext
    \/ \E from \in Identities, req \in GeneralRequests :
          enroll_clock_failed(from, req)
    \/ enroll_sign_failed
    \/ enroll_store_failed

OauthNext ==
    \/ \E from \in Identities, req \in OauthRequests : o_request(from, req)
    \/ \E h \in HttpOutcomes : o_fetched(h)
    \/ o_signed
    \/ o_stored
    \/ Tick

AuthorityNext ==
    \/ \E cfg \in AuthorityConfigs : authority_new(cfg)
    \/ \E they \in Identities, req \in AuthorityRequests :
            a_request(they, req)
    \/ Tick

\* the workers that issue signed envelopes, serving the requests that ask
\* for one or read one back
IssueGeneralRequests ==
    {Request("POST", <<"enroll">>, EncCredentialRequest("M")),
     Request("GET", <<"member", "M">>, NoBody)}
IssueAdminRequests == {Request("POST", <<"register">>, EncEnroller("E"))}
IssueOauthRequests ==
    {Request("POST", <<"register">>, EncTokenRequest("t1")),
     Request("GET", <<"member", "E">>, NoBody)}
IssueHttpOutcomes == {h \in HttpOutcomes : h.status \in {200, 401}}
IssueSignRequests ==
    {Request("POST", <<"sign">>,
         EncSignRequest(Oauth2Flow, EncOauth2("t1"),
             ASignatureNew("E", create_signature("E", o)))) :
        o \in SignData}
IssueSignerRequests ==
    {Request("POST", <<"sign">>, b) : b \in SignerBodies \cup {NoBody}}

IssueNext ==
    \/ \E req \in IssueSignerRequests : signer_request(req)
    \/ \E req \in IssueGeneralRequests : on_request("E", req)
    \/ enroll_signed
    \/ enroll_stored
    \/ \E req \in IssueAdminRequests : on_admin_request(req)
    \/ \E req \in IssueOauthRequests : o_request("E", req)
    \/ \E h \in IssueHttpOutcomes : o_fetched(h)
    \/ o_signed
    \/ o_stored
    \/ authority_new([up |-> TRUE, auth0 |-> TRUE])
    \/ \E req \in IssueSignRequests : a_request("E", req)
    \/ Tick

\* both authenticators on one store, asked about the same identity
SharedGeneralRequests ==
    {Request("POST", <<"enroll">>, EncCredentialRequest("E")),
     Request("GET", <<"member", "E">>, NoBody)}
SharedAdminRequests ==
    {Request("POST", <<"register">>, EncEnroller(e)) : e \in {"E", OAUTH2}}

SharedNext ==
    \/ \E req \in SharedGeneralRequests : on_request("E", req)
    \/ enroll_signed
    \/ enroll_stored
    \/ \E req \in SharedAdminRequests : on_admin_request(req)
    \/ \E req \in IssueOauthRequests : o_request("E", req)
    \/ \E h \in IssueHttpOutcomes : o_fetched(h)
    \/ o_signed
    \/ o_stored
    \/ Tick

PolicyNext ==
    \/ \E r \in Resources, a \in Actions, p \in Conds : set_policy(r, a, p)
    \/ \E r \in Resources, a \in Actions : get_policy(r, a)
    \/ \E r \in Resources : del_policy(r)

EvalNext == Eval

ParseNext == PrintParse

Next ==
    \/ MedicNext
    \/ AuthNext
    \/ OauthNext
    \/ AuthorityNext
    \/ IssueNext
    \/ PolicyNext
    \/ EvalNext
    \/ ParseNext
    \/ InvitationNext
    \/ RegistryNext
    \/ AuthFaultNext
    \/ SilentLongNext
    \/ SilentFaultNext

Spec == Init /\ [][Next]_vars

\* the session supervisor on its own
SpecMedic == Init /\ [][MedicNext]_vars

\* the session supervisor without pongs: the medic task keeps running (it
\* only ever waits for the lock, the sleep and the dispatch of a ping) and
\* every spawned task ends (the closures bound their work by a timeout)
SpecMedicFair ==
    Init /\ [][SilentNext]_vars /\ WF_vars(MedicStep) /\ WF_vars(TaskStep)

\* the session supervisor without pongs, for MaxCycles + 2 iterations
SpecMedicLong == Init /\ [][SilentLongNext]_vars

\* the session supervisor without pongs, with failing dispatch of pings
SpecMedicFault == Init /\ [][SilentFaultNext]_vars

\* the authenticator and the signer alone
SpecAuth == Init /\ [][AuthNext]_vars

\* the direct and the oauth2 authenticator on one store
SpecShared == Init /\ [][SharedNext]_vars

\* the authenticator with failing clock, signer and store
SpecAuthFault == Init /\ [][AuthFaultNext]_vars

\* the oauth2 authenticator and the signer alone
SpecOauth == Init /\ [][OauthNext]_vars

\* the authority alone
SpecAuthority == Init /\ [][AuthorityNext]_vars

\* the policy store alone
SpecPolicy == Init /\ [][PolicyNext]_vars

\* the evaluator alone
SpecEval == InitEval /\ [][EvalNext]_vars

\* printing and parsing alone
SpecParse == InitParse /\ [][ParseNext]_vars

\* the registry of the node manager alone
SpecRegistry == Init /\ [][RegistryNext]_vars

\* the invitations alone
SpecInvitation == Init /\ [][InvitationNext]_vars

\* the signer and the workers that issue signed envelopes
SpecIssue == Init /\ [][IssueNext]_vars

(***************************************************************************)
(* Properties of the session supervisor                                    *)
(***************************************************************************)
Range(q) == {q[i] : i \in 1..Len(q)}

status_of(k) == nodes[ses[k].ptr].status

\* C1: every session holds at most MAX_FAILURES outstanding pings, whatever
\* the interleaving of medic iterations, pongs and Sessions::add.
C1_PingsBounded ==
    \A k \in DOMAIN ses : Len(ses[k].pings) <= MAX_FAILURES

C1_Witness ==
    \E k \in DOMAIN ses : Len(ses[k].pings) = MAX_FAILURES /\ cycle > MAX_FAILURES

\* some session that node p depends on directly is not Up
DependencyDown(p) == \E e \in edges : e[1] = p /\ nodes[e[2]].status # "Up"

\* C2: no step changes the status of, or invokes the restarter of, a session
\* that is at the failure threshold while one of its dependencies is not up.
C2_WaitsForDependency ==
    [][\A k \in DOMAIN ses :
          (Len(ses[k].pings) = MAX_FAILURES /\ DependencyDown(ses[k].ptr))
          => /\ nodes'[ses[k].ptr].status = nodes[ses[k].ptr].status
             /\ invoked'[ses[k].ptr] = invoked[ses[k].ptr]]_vars

\* the medic took the turn of an unresponsive session whose dependency is
\* not up, and the session is still Up
C2_Witness ==
    \E k \in DOMAIN ses :
        /\ pc = "drain"
        /\ misses[k] > MAX_FAILURES
        /\ Len(ses[k].pings) = MAX_FAILURES
        /\ DependencyDown(ses[k].ptr)
        /\ is_up(status_of(k))

\* C3: a processed pong empties the pings of its session when its key is
\* registered and its nonce outstanding, and otherwise changes no session's
\* pings, status or address.
C3_PongHandling ==
    [][(pc = "drain" /\ rx # <<>> /\ rx' = Tail(rx))
          => LET m == Head(rx) IN
             /\ nodes' = nodes
             /\ IF m.key \in DOMAIN ses /\ m.ping \in Range(ses[m.key].pings)
                THEN ses' = [ses EXCEPT ![m.key].pings = <<>>]
                ELSE ses' = ses]_vars

\* a matching pong has emptied the list of a session that was pinged
C3_Witness ==
    \E k \in DOMAIN ses :
        pc = "drain" /\ age[k] > 1 /\ misses[k] = 0 /\ ses[k].pings = <<>>

\* C4: a session leaves Up, or has its restarter invoked, only in a step in
\* which it holds MAX_FAILURES pings, which it does only after MAX_FAILURES
\* consecutive iterations without a matching pong.
C4_OnlyAfterMaxFailures ==
    /\ [](\A k \in DOMAIN ses :
            Len(ses[k].pings) =
                IF misses[k] < MAX_FAILURES THEN misses[k] ELSE MAX_FAILURES)
    /\ [][\A k \in DOMAIN ses :
            (is_up(status_of(k)) /\
                (~is_up(nodes'[ses[k].ptr].status)
                    \/ invoked'[ses[k].ptr] # invoked[ses[k].ptr]))
            => Len(ses[k].pings) = MAX_FAILURES /\ misses[k] > MAX_FAILURES]_vars

\* a session without restarter was found unresponsive and marked Down
C4_Witness ==
    \E k \in DOMAIN ses :
        status_of(k) = "Down" /\ misses[k] = MAX_FAILURES + 1

\* C5: a session that is never answered gets one ping in each of its first
\* MAX_FAILURES iterations and no restarter call; in iteration
\* MAX_FAILURES + 1 it gets no ping, is found unresponsive and, having a
\* restarter and no dependency that is not up, has the restarter invoked.
C5_ReplacedInCycleAfterMaxFailures ==
    /\ [](\A k \in DOMAIN ses :
            (misses[k] = age[k] /\ age[k] <= MAX_FAILURES)
            => /\ Len(ses[k].pings) = age[k]
               /\ invoked[ses[k].ptr] = 0
               /\ is_up(status_of(k)))
    /\ [][(pc = "check" /\ pc' = "zombies")
            => \A k \in DOMAIN ses :
                 (misses'[k] = age'[k] /\ age'[k] = MAX_FAILURES + 1)
                 => k \in Range(zombies') /\ ses'[k].pings = ses[k].pings]_vars
    /\ [][\A k \in DOMAIN ses :
            (/\ pc = "zombies" /\ zombies # <<>> /\ zombies' = Tail(zombies)
             /\ Head(zombies) = k
             /\ misses[k] = age[k] /\ age[k] = MAX_FAILURES + 1
             /\ nodes[ses[k].ptr].restarter
             /\ ~DependencyDown(ses[k].ptr))
            => /\ invoked'[ses[k].ptr] = invoked[ses[k].ptr] + 1
               /\ nodes'[ses[k].ptr].status = "Starting"]_vars

\* the restarter of a never answered session was invoked in its 4th iteration
C5_Witness ==
    \E k \in DOMAIN ses :
        /\ misses[k] = age[k] /\ age[k] = MAX_FAILURES + 1
        /\ invoked[ses[k].ptr] = 1

\* C6: once the replacement task of a session has completed with a new
\* address, the medic iteration that follows leaves the session Up, at the
\* new address and with no outstanding pings.
C6_ReplacementSuccessHandled ==
    [][(pc = "drain" /\ pc' = "check")
          => \A k \in DOMAIN ses :
               handle[ses[k].ptr].st = "ok"
               => /\ is_up(nodes'[ses[k].ptr].status)
                  /\ ses'[k].addr = handle[ses[k].ptr].addr
                  /\ ses'[k].pings = <<>>]_vars

\* ---- direct authenticator ----

EnrollRequest(m) == Request("POST", <<"enroll">>, EncCredentialRequest(m))

\* the enroller registry: the entries under scope ENROLLER, which the
\* enrollment check and GET /enroller/{id} read
Registry ==
    [k \in {x[2] : x \in {y \in DOMAIN store : y[1] = ENROLLER}} |->
        store[<<ENROLLER, k>>]]

C8_UnregisteredForbidden ==
    [][\A e \in Identities, m \in MemberNames :
            (~store_has(ENROLLER, e) /\ on_request(e, EnrollRequest(m)))
                => /\ reply'.from = e
                   /\ reply'.re = <<"enroll">>
                   /\ reply'.status = "Forbidden"
                   /\ gw' = Idle
                   /\ store' = store
      ]_vars

\* E was refused while F is registered and M holds a credential
C8_Witness ==
    /\ reply.from = "E"
    /\ reply.re = <<"enroll">>
    /\ reply.status = "Forbidden"
    /\ ~store_has(ENROLLER, "E")
    /\ store_has(ENROLLER, "F")
    /\ store_has("M", DIRECT)

\* C9: DELETE /deregister/E is answered Ok and leaves E without a record;
\* while E has no record GET /enroller/E is answered NotFound and POST
\* /enroll from E is refused; and only POST /register naming E gives E a
\* record again, whatever is registered or deregistered for others.
C9_DeregisteredStaysOut ==
    [][\A e \in Identities :
        /\ (/\ reply'.re = <<"deregister", e>>
            /\ on_admin_request(Request("DELETE", <<"deregister", e>>, NoBody)))
            => reply'.status = "Ok" /\ <<ENROLLER, e>> \notin DOMAIN store'
        /\ (~store_has(ENROLLER, e) /\ <<ENROLLER, e>> \in DOMAIN store')
            => on_admin_request(Request("POST", <<"register">>, EncEnroller(e)))
        /\ (/\ ~store_has(ENROLLER, e)
            /\ reply'.re = <<"enroller", e>>
            /\ on_admin_request(Request("GET", <<"enroller", e>>, NoBody)))
            => reply'.status = "NotFound"
        /\ \A m \in MemberNames :
            (/\ ~store_has(ENROLLER, e)
             /\ reply'.from = e
             /\ on_request(e, EnrollRequest(m)))
                => reply'.status = "Forbidden" /\ gw'.pc = "idle"
      ]_vars

\* E was deregistered while its earlier enrollment is still with the
\* signer, and F is registered
C9_Witness ==
    /\ reply.re = <<"deregister", "E">>
    /\ reply.status = "Ok"
    /\ ~store_has(ENROLLER, "E")
    /\ store_has(ENROLLER, "F")
    /\ gw.pc = "sign"
    /\ gw.from = "E"

\* C10: no step of the member-facing worker changes the enroller registry,
\* and every change of the registry is made by the admin worker's POST
\* /register or DELETE /deregister.
C10_GeneralLeavesRegistry ==
    [][/\ (\/ \E from \in Identities, req \in GeneralRequests :
                on_request(from, req)
           \/ enroll_signed
           \/ enroll_stored) => Registry' = Registry
       /\ Registry' # Registry
            => \E e \in EnrollerNames :
                \/ on_admin_request(Request("POST", <<"register">>,
                                            EncEnroller(e)))
                \/ on_admin_request(Request("DELETE", <<"deregister", e>>,
                                            NoBody))
      ]_vars

\* the member slot of m differs between the two states of a step
MemberSlotChanged(m) ==
    \/ (<<m, DIRECT>> \in DOMAIN store) # (<<m, DIRECT>> \in DOMAIN store')
    \/ /\ <<m, DIRECT>> \in DOMAIN store
       /\ <<m, DIRECT>> \in DOMAIN store'
       /\ store[<<m, DIRECT>>] # store'[<<m, DIRECT>>]

\* C11: an enrollment of M that is answered Ok leaves the envelope it
\* replies with as M's stored envelope; M's stored envelope is created and
\* changed by nothing but a successful enrollment of M; and GET /member/M
\* is answered Ok with the stored envelope, NotFound when there is none.
C11_MemberReturnsLastEnvelope ==
    [][\A m \in MemberNames :
        /\ (gw.pc = "store" /\ gw'.pc = "idle" /\ crq_member(gw.req.body) = m)
            => /\ reply'.status = "Ok"
               /\ <<m, DIRECT>> \in DOMAIN store'
               /\ store'[<<m, DIRECT>>] = reply'.body
        /\ MemberSlotChanged(m)
            => (gw.pc = "store" /\ gw'.pc = "idle"
                    /\ crq_member(gw.req.body) = m)
        /\ \A f \in Identities :
            (/\ reply'.re = <<"member", m>>
             /\ reply'.from = f
             /\ on_request(f, Request("GET", <<"member", m>>, NoBody)))
                => IF <<m, DIRECT>> \in DOMAIN store
                   THEN /\ reply'.status = "Ok"
                        /\ reply'.body = store[<<m, DIRECT>>]
                   ELSE reply'.status = "NotFound"
      ]_vars

\* C12: when the profile endpoint answers 401 the register request is
\* answered Unauthorized; when it answers another status that is not 200,
\* or the HTTP request fails, the request is answered
\* InternalServerError; in both cases the worker is idle again without
\* having called the signer, and the store is unchanged.
C12_ProfileFailureRejected ==
    [][\A h \in HttpOutcomes :
        (h.status # 200 /\ o_fetched(h))
            => /\ reply'.status = IF h.status = 401
                                  THEN "Unauthorized"
                                  ELSE "InternalServerError"
               /\ reply'.re = <<OAUTH2, "register">>
               /\ reply'.from = ow.from
               /\ ow' = OIdle
               /\ store' = store
      ]_vars

C12_Witness ==
    /\ reply.re = <<OAUTH2, "register">>
    /\ reply.status = "InternalServerError"
    /\ reply.from = "E"
    /\ store_has("E", OAUTH2)

\* C13: the member of an OAuth2 credential and the key it is stored under
\* are the identity of the peer the request came from, whatever the token
\* and the profile document say: the worker keeps the peer of the request
\* it works on, the credential it builds names that peer, the envelope is
\* stored under that peer and the scope oauth2 only, and every envelope of
\* that scope names the identity it is stored under.
C13_MemberIsPeer ==
    [][/\ \A f \in Identities, req \in OauthRequests :
            (o_request(f, req) /\ ow'.pc = "fetch") => ow'.from = f
       /\ (ow.pc # "idle" /\ ow'.pc # "idle") => ow'.from = ow.from
       /\ (ow.pc = "fetch" /\ ow'.pc = "sign")
            => member(ow'.dat) = ow.from
       /\ (ow.pc = "store" /\ ow'.pc = "idle")
            => /\ reply'.status = "Ok"
               /\ reply'.from = ow.from
               /\ member(signed_data(reply'.body)) = ow.from
               /\ store' = [x \in DOMAIN store \cup {<<ow.from, OAUTH2>>} |->
                              IF x = <<ow.from, OAUTH2>>
                              THEN reply'.body ELSE store[x]]
       /\ \A k \in DOMAIN store' :
            k[2] = OAUTH2 /\ member(signed_data(store'[k])) = k[1]
      ]_vars

\* the peer E, who holds a credential already, is about to be given one
\* from another token and another profile
C13_Witness ==
    /\ ow.pc = "store"
    /\ ow.from = "E"
    /\ store_has("E", OAUTH2)
    /\ access_token(ow.req.body) = "F"
    /\ has_email(ow.dat)
    /\ ~has_email(signed_data(store_get("E", OAUTH2)))

\* C14: the signer answers POST /sign with body b by Ok and an envelope
\* whose data is b, whose signature names the signer's own identity and
\* whose signature bytes are that identity's signature over b; the answer
\* is decided by the request alone and the signer changes no state.
C14_SignerSignsBody ==
    [][\A req \in IssueSignerRequests :
        signer_request(req)
            => /\ reply'.status = "Ok"
               /\ DecSigned(reply'.body)
               /\ signed_data(reply'.body) = req.body
               /\ signed_signature(reply'.body).xs[1].s = SignerId
               /\ signed_signature(reply'.body).xs[2].b
                    = [signer |-> SignerId, over |-> req.body]
               /\ UNCHANGED <<store, now, gw, ow, au>>
      ]_vars

\* the signer has signed a body that is no credential, while the store
\* holds credentials it signed before
C14_Witness ==
    /\ reply.re = <<"signer", "sign">>
    /\ reply.status = "Ok"
    /\ signed_data(reply.body) = Str("x")
    /\ store_has("M", DIRECT)
    /\ store_has("E", OAUTH2)

\* verify(s.data, s.signature, key of the issuer): the signature bytes are
\* the issuer's signature over the envelope's data and the key id names
\* the issuer
EnvelopeVerifies(dat, kid, sig, issuer) ==
    kid = issuer /\ sig = [signer |-> issuer, over |-> dat]

SignerEnvelopeVerifies(s) ==
    /\ DecSigned(s)
    /\ EnvelopeVerifies(signed_data(s), signed_signature(s).xs[1].s,
                        signed_signature(s).xs[2].b, SignerId)

\* C15: every signed envelope a worker answers with or stores verifies
\* under the key of the identity that issued it: the envelopes stored by
\* direct enroll and by oauth2 register, the envelopes these workers and
\* the signer answer with, and the envelope the authority answers with.
C15_EnvelopesVerify ==
    /\ \A k \in DOMAIN store :
            k[2] \in {DIRECT, OAUTH2} => SignerEnvelopeVerifies(store[k])
    /\ (reply.status = "Ok" /\ reply.re \in {<<"enroll">>, <<"member", "M">>,
                                              <<OAUTH2, "register">>,
                                              <<OAUTH2, "member", "E">>,
                                              <<"signer", "sign">>})
            => SignerEnvelopeVerifies(reply.body)
    /\ (reply.status = "Ok" /\ reply.re = <<"authority", "sign", Oauth2Flow>>)
            => /\ DecASigned(reply.body)
               /\ EnvelopeVerifies(reply.body.kv[1].b,
                                   key_id(reply.body.kv[2]),
                                   signature(reply.body.kv[2]), AuthorityId)

\* both authenticators have stored an envelope and the authority has just
\* answered with one
C15_Witness ==
    /\ store_has("M", DIRECT)
    /\ store_has("E", OAUTH2)
    /\ reply.status = "Ok"
    /\ reply.re = <<"authority", "sign", Oauth2Flow>>

\* C16: the authority answers POST /sign with Ok only when the request's
\* signature verifies over the request's data under a known identity; in
\* every flow a request signed by an unknown identity fails with Invalid
\* (unknown identity) and a request whose signature does not verify fails
\* as an invalid signature, before anything specific to the flow is done.
C16_VerifiedBeforeAnything ==
    [][\A they \in Identities, b \in SignRequests :
        a_request(they, Request("POST", <<"sign">>, b))
            => LET sig == sr_signature(b)
                   known == key_id(sig) \in KnownIdentities
                   good == signature(sig)
                             = [signer |-> key_id(sig), over |-> sr_data(b)]
               IN  /\ reply'.status = "Ok" => (known /\ good)
                   /\ ~known
                        => /\ reply'.status = "Err"
                           /\ reply'.body = Err("Invalid",
                                                "unknown identity").body
                   /\ (known /\ ~good)
                        => /\ reply'.status = "Err"
                           /\ reply'.body = Err("Invalid",
                                                "invalid signature").body
      ]_vars

\* the answer the error rules ask for, "" when the request is routed:
\* `methods` are the methods the worker serves and `routed` says whether
\* the path matches a route of the request's method
ErrorStatus(req, methods, routed) ==
    IF req.method = "NONE" THEN "NotImplemented"
    ELSE IF req.method \notin methods THEN "MethodNotAllowed"
    ELSE IF ~routed THEN "BadRequest"
    ELSE ""

ErrorAnswered(st) ==
    st # "" => /\ reply'.status = st
               /\ st = "BadRequest" => reply'.body.t = "error"
               /\ store' = store

IsPath(req, m, first, len) ==
    req.method = m /\ Len(req.path) = len /\ req.path[1] = first

\* C17: every worker answers a decodable request whose path matches no
\* route of its method with BadRequest and an error body, a request with
\* a known method it does not serve with MethodNotAllowed, and a request
\* without a recognised method with NotImplemented, and leaves the store
\* as it was.
C17_ErrorAnswers ==
    [][/\ \A they \in Identities, req \in AuthorityRequests :
            (req.framed /\ a_request(they, req))
                => ErrorAnswered(ErrorStatus(req, {"POST"},
                                    IsPath(req, "POST", "sign", 1)))
       /\ \A req \in IssueSignerRequests :
            (req.framed /\ signer_request(req))
                => ErrorAnswered(ErrorStatus(req, {"POST"},
                                    IsPath(req, "POST", "sign", 1)))
       /\ \A from \in Identities, req \in GeneralRequests :
            (req.framed /\ on_request(from, req))
                => ErrorAnswered(ErrorStatus(req, {"POST", "GET"},
                                    \/ IsPath(req, "POST", "enroll", 1)
                                    \/ IsPath(req, "GET", "member", 2)))
       /\ \A req \in AdminRequests :
            (req.framed /\ on_admin_request(req))
                => ErrorAnswered(ErrorStatus(req, {"POST", "GET", "DELETE"},
                                    \/ IsPath(req, "POST", "register", 1)
                                    \/ IsPath(req, "GET", "enroller", 2)
                                    \/ IsPath(req, "DELETE", "deregister", 2)))
       /\ \A from \in Identities, req \in OauthRequests :
            (req.framed /\ o_request(from, req))
                => ErrorAnswered(ErrorStatus(req, {"POST", "GET"},
                                    \/ IsPath(req, "POST", "register", 1)
                                    \/ IsPath(req, "GET", "member", 2)))
      ]_vars

\* the entry of the pair (r, a) in the nested map p, if any
Entry(p, r, a) ==
    IF r \in DOMAIN p /\ a \in DOMAIN p[r]
    THEN [some |-> TRUE, cond |-> p[r][a]]
    ELSE [some |-> FALSE, cond |-> ExprUnit]

\* C18: get_policy(R, A) returns the expression of the most recent
\* set_policy(R, A, e) not followed by del_policy(R), and None otherwise:
\* set_policy makes its expression the entry of its pair and leaves every
\* other pair as it was, del_policy leaves the resource without an entry
\* for any action and every other resource as it was, and get_policy
\* returns the entry of its pair and changes nothing.
C18_PolicyStore ==
    [][/\ \A r \in Resources, a \in Actions, p \in Conds :
            set_policy(r, a, p)
                => /\ Entry(policies', r, a) = [some |-> TRUE, cond |-> p]
                   /\ \A r2 \in Resources, a2 \in Actions :
                        <<r2, a2>> # <<r, a>>
                            => Entry(policies', r2, a2)
                                = Entry(policies, r2, a2)
       /\ \A r \in Resources :
            del_policy(r)
                => \A r2 \in Resources, a2 \in Actions :
                        Entry(policies', r2, a2)
                            = IF r2 = r
                              THEN [some |-> FALSE, cond |-> ExprUnit]
                              ELSE Entry(policies, r2, a2)
       /\ \A r \in Resources, a \in Actions :
            get_policy(r, a)
                => /\ got'.res = Entry(policies, r, a)
                   /\ policies' = policies
      ]_vars

\* a resource has been given both actions, one of them twice, and the
\* replaced one has been read back
C18_Witness ==
    /\ got.op = "get"
    /\ got.res.some
    /\ got.res.cond # ExprBool(TRUE)
    /\ got.r \in DOMAIN policies
    /\ DOMAIN policies[got.r] = Actions
    /\ DOMAIN policies # Resources

RECURSIVE HasVar(_)
\* the expression holds a variable at some depth
HasVar(e) ==
    \/ e.k = "Var"
    \/ /\ e.k \in {"List", "Vec"}
       /\ \E n \in 1 .. Len(e.xs) : HasVar(e.xs[n])

\* C19: a result Ok(v) of Expr::eval holds no variable at any depth.
C19_NoVariableInResult ==
    (ev.done /\ ev.res.ok) => ~HasVar(ev.res.val)

\* the operand n of `args` lets a short-circuit form go on to the next
\* one: it evaluates to a boolean other than the one the form stops at
GoesOn(args, n, env, stop) ==
    /\ eval(args[n], env).ok
    /\ eval(args[n], env).val.k = "Bool"
    /\ eval(args[n], env).val.bool # stop

\* what a short-circuit form that stops at `stop` comes to: the operands
\* after the first one that does not let it go on play no part
ShortCircuit(args, env, stop) ==
    IF \A n \in 1 .. Len(args) : GoesOn(args, n, env, stop)
    THEN EvalOk(ExprBool(~stop))
    ELSE LET first == CHOOSE n \in 1 .. Len(args) :
                        /\ ~GoesOn(args, n, env, stop)
                        /\ \A m \in 1 .. n - 1 : GoesOn(args, m, env, stop)
             r == eval(args[first], env)
         IN  IF ~r.ok THEN r
             ELSE IF r.val.k # "Bool" THEN InvalidType
             ELSE EvalOk(ExprBool(stop))

\* C20: `and` and `or` are short-circuit: (and e1 .. en) is false at the
\* first operand that evaluates to false, whatever the later operands
\* would do, true when all are true or there is none, and fails
\* InvalidType at a non-boolean operand; `or` is the dual, stopping at the
\* first true and false when there is no operand.
C20_ShortCircuit ==
    (ev.done /\ ev.expr.k = "List" /\ Len(ev.expr.xs) >= 1)
        => /\ ev.expr.xs[1] = ExprVar("and")
                => ev.res = ShortCircuit(Tail(ev.expr.xs), ev.env, FALSE)
           /\ ev.expr.xs[1] = ExprVar("or")
                => ev.res = ShortCircuit(Tail(ev.expr.xs), ev.env, TRUE)

\* (and true false y) with y unbound has come to false
C20_Witness ==
    /\ ev.done
    /\ ev.expr = ExprList(<<ExprVar("and"), ExprBool(TRUE), ExprBool(FALSE),
                            ExprVar("y")>>)
    /\ ev.res = EvalOk(ExprBool(FALSE))

\* the evaluated expression is a call of the operator `name`
IsCall(name) ==
    /\ ev.done
    /\ ev.expr.k = "List"
    /\ Len(ev.expr.xs) >= 1
    /\ ev.expr.xs[1] = ExprVar(name)

\* the operands of the evaluated call
Args == Tail(ev.expr.xs)

\* C21: (not e) with exactly one operand that evaluates to Bool(b) is
\* Bool(!b); with no operand, with two or more operands, or with an
\* operand that evaluates to something that is no boolean it fails
\* InvalidType.
C21_NotOneOperand ==
    IsCall("not")
        => IF Len(Args) = 1
           THEN eval(Args[1], ev.env).ok
                    => ev.res = IF eval(Args[1], ev.env).val.k = "Bool"
                                THEN EvalOk(ExprBool(
                                         ~eval(Args[1], ev.env).val.bool))
                                ELSE InvalidType
           ELSE ev.res = InvalidType

\* the integer quotient, truncated towards zero
TruncDiv(i, j) ==
    IF (i < 0) = (j < 0) THEN Abs(i) \div Abs(j)
                         ELSE 0 - (Abs(i) \div Abs(j))

\* the exact result of one arithmetic step
Exact(op, i, j) ==
    IF op = "+" THEN i + j
    ELSE IF op = "*" THEN i * j
    ELSE IF op = "-" THEN i - j
    ELSE TruncDiv(i, j)

RECURSIVE ArithValue(_, _, _)
\* what an arithmetic call over integer operands comes to, from the
\* accumulator i and operand n on: a zero divisor is InvalidType, a result
\* that does not fit is Overflow
ArithValue(op, i, n) ==
    IF n > Len(Args) THEN EvalOk(ExprInt(i))
    ELSE LET j == eval(Args[n], ev.env).val.int
         IN  IF op = "/" /\ j = 0 THEN InvalidType
             ELSE IF Exact(op, i, j) < MinInt \/ Exact(op, i, j) > MaxInt
             THEN Overflow
             ELSE ArithValue(op, Exact(op, i, j), n + 1)

\* C22: over integer operands a division whose divisor is 0 fails
\* InvalidType, and an operation whose result does not fit the signed
\* integer range fails Overflow; neither failure is reported as the other.
C22_ZeroDivisorInvalidType ==
    \A op \in {"+", "*", "-", "/"} :
        (/\ IsCall(op)
         /\ Len(Args) >= 1
         /\ \A n \in 1 .. Len(Args) :
                /\ eval(Args[n], ev.env).ok
                /\ eval(Args[n], ev.env).val.k = "Int")
            => ev.res = ArithValue(op, eval(Args[1], ev.env).val.int, 2)

\* the operators that are not short-circuit forms
StrictOps == {"=", "eq?", "!=", "ne?", "+", "*", "-", "/", "in", "member"}

\* C23: an operator that is no short-circuit form evaluates all of its
\* arguments from left to right: when the evaluation of some argument
\* fails, the call fails with the error of the leftmost such argument,
\* whatever the other arguments evaluate to.
C23_LeftmostErrorSurfaces ==
    \A op \in StrictOps :
        (IsCall(op) /\ \E n \in 1 .. Len(Args) : ~eval(Args[n], ev.env).ok)
            => ev.res = eval(Args[CHOOSE n \in 1 .. Len(Args) :
                                /\ ~eval(Args[n], ev.env).ok
                                /\ \A m \in 1 .. n - 1 :
                                        eval(Args[m], ev.env).ok],
                             ev.env)

\* C24: a value without a variable, printed and parsed, is that value.
C24_PrintParseRoundTrip ==
    rt.done => rt.back = EvalOk(rt.expr)

\* C26: the collector never waits for room in the mailbox: whatever message
\* arrives, its handler can run to its end.
C26_CollectorNeverWaits ==
    \A m \in Messages : ENABLED CollectorHandle(m)

\* the dependencies of node p that are up and hold a replacement closure
Replaceable(p) ==
    {d \in dependencies(edges, p) : nodes[d].status = "Up" /\ nodes[d].restarter}

\* C27: when the medic turns to a session at the failure threshold, none of
\* whose dependencies is Down, and some Up dependency holds a replacement
\* closure, the step invokes the replacement of such a dependency, takes it
\* out of Up, and does not invoke the replacement of the session itself.
C27_ReplacesDependencyFirst ==
    [][(/\ pc = "zombies"
        /\ zombies # <<>>
        /\ zombies' = Tail(zombies)
        /\ Head(zombies) \in DOMAIN ses
        /\ \A d \in dependencies(edges, ses[Head(zombies)].ptr) :
               nodes[d].status # "Down"
        /\ Replaceable(ses[Head(zombies)].ptr) # {})
       => /\ invoked'[ses[Head(zombies)].ptr] = invoked[ses[Head(zombies)].ptr]
          /\ \E d \in Replaceable(ses[Head(zombies)].ptr) :
                /\ invoked'[d] = invoked[d] + 1
                /\ nodes'[d].status # "Up"]_vars

\* C28: once the replacement task of a session has completed with a new
\* address, the medic iteration that follows leaves no session that depends
\* on it Up, and has invoked the replacement of each dependent that holds one
\* after that completion; before the completion no dependent is replaced.
C28_DependentsReplacedAfter ==
    /\ [][(pc = "drain" /\ pc' = "check")
            => \A n \in 1 .. Len(nodes) :
                 handle[n].st = "ok"
                 => \A d \in dependents(edges, n) :
                       /\ nodes'[d].status # "Up"
                       /\ nodes[d].restarter => handle'[d].st # "none"]_vars
    /\ [][\A n \in 1 .. Len(nodes) :
            handle[n].st = "running"
            => \A d \in dependents(edges, n) : invoked'[d] = invoked[d]]_vars

\* the registered sessions whose node depends on node p
DependentSessions(p) ==
    {j \in DOMAIN ses : ses[j].ptr \in dependents(edges, p)}

\* C30: the pass of a medic iteration over the sessions adds no ping to a
\* session on which a registered, monitored session depends.
C30_NoPingWithDependent ==
    [][(pc = "check" /\ pc' = "zombies")
          => \A k \in DOMAIN ses :
               DependentSessions(ses[k].ptr) # {}
               => ses'[k].pings = ses[k].pings]_vars

\* the replacement task of node n has ended with an error or a timeout
FailedTask(n) == n \in 1 .. Len(nodes) /\ handle[n].st = "err"

\* the task of node n is no longer the one that failed
Retried(n) == n \in 1 .. Len(nodes) /\ handle[n].st # "err"

C31_NoDispatchUnderLock ==
    [][(pc = "check" /\ pc' = "zombies")
          => \A k \in DOMAIN ses : ses'[k].pings = ses[k].pings]_vars

\* C35: when the clock, the signer or the store write fails during the
\* enrolment by a registered enroller, the caller is answered with
\* InternalServerError and gets no signed envelope.
C35_EnrollFailureAnswered ==
    [][((\E from \in Identities, req \in GeneralRequests :
             enroll_clock_failed(from, req))
        \/ enroll_sign_failed
        \/ enroll_store_failed)
       => /\ reply'.status = "InternalServerError"
          /\ ~DecSigned(reply'.body)]_vars

\* C36: the replacement of a session is invoked only while no earlier
\* replacement of that session is still running, so at most one task is
\* outstanding for it.
C36_OneReplacementOutstanding ==
    [][\A n \in 1 .. Len(nodes) :
          invoked'[n] # invoked[n]
          => /\ handle[n].st # "running"
             /\ handle'[n].st = "running"
             /\ invoked'[n] = invoked[n] + 1]_vars

\* a session at the failure threshold went through a further iteration
\* while its replacement was running
C36_Witness ==
    \E k \in DOMAIN ses :
        /\ pc = "drain"
        /\ handle[ses[k].ptr].st = "running"
        /\ Len(ses[k].pings) = MAX_FAILURES
        /\ misses[k] = MAX_FAILURES + 2

\* C37: whatever request the member-facing or the admin worker has handled,
\* a reply went to its return route: the handler did not end with an error
\* in place of a reply.
C37_EveryRequestAnswered ==
    reply.status # Failure.status

\* C38: no request handled by the admin worker, DELETE /deregister
\* included, creates, removes or changes the stored credential of a member.
C38_AdminLeavesCredentials ==
    [][(\E req \in AdminRequests : on_admin_request(req))
          => \A m \in MemberNames : ~MemberSlotChanged(m)]_vars

\* the entry of id under key differs between the two states of a step and
\* holds a signed envelope afterwards
EnvelopeWritten(id, key) ==
    /\ <<id, key>> \in DOMAIN store'
    /\ DecSigned(store'[<<id, key>>])
    /\ (<<id, key>> \in DOMAIN store => store[<<id, key>>] # store'[<<id, key>>])

\* C39: on a shared store, an envelope gets into the direct slot of an
\* identity only by a direct enrolment of it and into its oauth2 slot only by
\* its oauth2 registration, and each worker's GET /member answers with the
\* envelope of its own slot.
C39_FlowsKeepApart ==
    [][\A id \in {"E", "M"} :
        /\ EnvelopeWritten(id, "direct")
            => /\ gw.pc = "store" /\ gw'.pc = "idle"
               /\ crq_member(gw.req.body) = id
               /\ store'[<<id, "direct">>] = gw.sig
               /\ DecMemberCredential(signed_data(gw.sig))
        /\ EnvelopeWritten(id, "oauth2")
            => /\ ow.pc = "store" /\ ow'.pc = "idle"
               /\ ow.from = id
               /\ store'[<<id, "oauth2">>] = ow.sig
        /\ (reply'.re = <<"member", id>> /\ reply'.status = "Ok")
            => /\ <<id, "direct">> \in DOMAIN store
               /\ reply'.body = store[<<id, "direct">>]
        /\ (reply'.re = <<"oauth2", "member", id>> /\ reply'.status = "Ok")
            => /\ <<id, "oauth2">> \in DOMAIN store
               /\ reply'.body = store[<<id, "oauth2">>]]_vars

\* both workers hold an envelope for E, issued at different times, and the
\* oauth2 worker has just been asked for its own
C39_Witness ==
    /\ <<"E", "direct">> \in DOMAIN store
    /\ <<"E", "oauth2">> \in DOMAIN store
    /\ store[<<"E", "direct">>] # store[<<"E", "oauth2">>]
    /\ reply.re = <<"oauth2", "member", "E">>
    /\ reply.status = "Ok"

\* C40: a pass in which the dispatch of pings fails still visits every
\* session: each session below the threshold gets its ping recorded, sent or
\* not, every other one is taken as unresponsive, and the medic goes on to
\* the next step of its loop.
C40_DispatchFailureAbsorbed ==
    [][(pc = "check" /\ cycle' = cycle + 1)
          => /\ pc' = "zombies"
             /\ \A k \in DOMAIN ses :
                  IF Len(ses[k].pings) < MAX_FAILURES
                  THEN Len(ses'[k].pings) = Len(ses[k].pings) + 1
                  ELSE /\ ses'[k].pings = ses[k].pings
                       /\ \E i \in 1 .. Len(zombies') : zombies'[i] = k]_vars

\* with two sessions registered, the ping that filled the list of one of
\* them could not be dispatched and is recorded all the same
C40_Witness ==
    \E k \in DOMAIN ses :
        /\ Cardinality(DOMAIN ses) = 2
        /\ k \in lost
        /\ Len(ses[k].pings) = MAX_FAILURES

\* ---- registry of the node manager ----

\* some path along the edges es over the nodes 0 .. n - 1 returns to its start
HasCycle(es, n) ==
    \E p \in SeqsUpTo(0 .. n - 1, n + 1) :
        /\ Len(p) >= 2
        /\ p[1] = p[Len(p)]
        /\ \A i \in 1 .. Len(p) - 1 : <<p[i], p[i + 1]>> \in es

\* C32: whatever sessions and dependencies were added, the dependency graph
\* has no directed cycle (no self-loop, no pair of opposite edges).
C32_GraphAcyclic ==
    ~HasCycle(reg.edges, Len(reg.nodes))

\* C33: an add that succeeds returns a key that no earlier add returned,
\* the registry maps that key to the session just added (which carries the
\* key), and every earlier key maps to the session it mapped to before; an
\* add that finds the counter at its largest value fails and leaves the
\* registry as it was.
C33_FreshKeys ==
    [][/\ kc' # kc =>
            IF kc.ctr < CtrMax
            THEN /\ kc'.res.ok
                 /\ kc'.res.key \notin DOMAIN kc.ses
                 /\ DOMAIN kc'.ses = DOMAIN kc.ses \cup {kc'.res.key}
                 /\ kc'.ses[kc'.res.key] = kc'.res.addr
                 /\ \A k \in DOMAIN kc.ses : kc'.ses[k] = kc.ses[k]
            ELSE /\ ~kc'.res.ok
                 /\ kc'.ses = kc.ses
                 /\ kc'.ctr = kc.ctr
       /\ Len(reg'.nodes) # Len(reg.nodes) =>
            /\ reg'.res.key \notin reg.keys
            /\ reg'.keys = reg.keys \cup {reg'.res.key}
            /\ Len(reg'.nodes) = Len(reg.nodes) + 1
            /\ reg'.nodes[reg'.res.key.idx + 1].key = reg'.res.key
            /\ reg'.res.key.idx = Len(reg.nodes)
            /\ SubSeq(reg'.nodes, 1, Len(reg.nodes)) = reg.nodes]_vars

\* the counter is exhausted, an add has failed, and the node manager has
\* registered as many sessions as it can
C33_Witness ==
    /\ kc.ctr = CtrMax
    /\ ~kc.res.ok
    /\ Cardinality(DOMAIN kc.ses) = CtrMax
    /\ Len(reg.nodes) = MaxSessions

\* C34: the session registry holds no session of a secure channel that has
\* been deleted: every session in it monitors a registered channel.
C34_DeletedChannelForgotten ==
    \A n \in 1 .. Len(reg.nodes) : reg.nodes[n].address \in reg.chans

(***************************************************************************)
(* Properties of the invitations                                           *)
(***************************************************************************)
\* the keys in by signed e, in that order, and nobody else did
SignedBy(e, by) ==
    /\ Len(e.sign) = Len(by)
    /\ \A i \in 1 .. Len(by) : is_valid(by[i], e.data, e.sign[i])

\* C25: a successful sign appends one signature over the data and leaves the
\* data and the earlier signatures alone; the i-th signature is valid for the
\* data under the i-th signer's key, after a transfer and for the invitation
\* inside an acceptance as well.
C25_SignAppends ==
    /\ [](/\ SignedBy(inv.e, inv.by)
          /\ inv.inner # <<>> =>
                 SignedBy(acceptance_envelope(inv.e), inv.inner[1]))
    /\ [][Len(inv'.by) = Len(inv.by) + 1 =>
              /\ inv'.e.data = inv.e.data
              /\ Len(inv'.e.sign) = Len(inv.e.sign) + 1
              /\ SubSeq(inv'.e.sign, 1, Len(inv.e.sign)) = inv.e.sign]_vars

C25_Witness ==
    /\ inv.wired
    /\ inv.inner # <<>>
    /\ inv.by = <<"b", "a">>
    /\ inv.inner[1] = <<"a", "b">>

====
